---- MODULE Spec2Model ----
(***************************************************************************)
(* Model of the Eagle WebDAV server: the request dispatcher                *)
(* (webdav/server.ts), Basic authentication (webdav/auth/auth.ts), the     *)
(* five route handlers under webdav/routes, their multistatus generators,   *)
(* and the Eagle API helpers (webdav/eagleUtils.ts).                       *)
(*                                                                         *)
(* A string is a sequence of characters.  A character is a one-letter      *)
(* string; the literals the code matches on ("folders", "hierarchy", ...)  *)
(* and the fixed words of names ("photo", "jpg") are single tokens.        *)
(*                                                                         *)
(* The fields of every record are written in the order in which their      *)
(* names first occur in the module, the order TLC sorts them into.         *)
(***************************************************************************)
EXTENDS Integers, Sequences, FiniteSets, TLC

\* Bounds of the model.
MaxFolders == 3
MaxSegs == 2
MaxLen == 3
MaxServers == 3
MaxTasks == 2

(***************************************************************************)
(* String helpers (JavaScript String.prototype)                            *)
(***************************************************************************)
startsWith(s, pre) == Len(s) >= Len(pre) /\ SubSeq(s, 1, Len(pre)) = pre

endsWith(s, suf) ==
  Len(s) >= Len(suf) /\ SubSeq(s, Len(s) - Len(suf) + 1, Len(s)) = suf

\* s.substring(n): n counts tokens of the matched prefix
substring(s, n) == SubSeq(s, n + 1, Len(s))

\* s.replace(/\/$/, '')
stripTrailingSlash(s) ==
  IF s # <<>> /\ s[Len(s)] = "/" THEN SubSeq(s, 1, Len(s) - 1) ELSE s

FirstIndexOf(s, c) ==
  IF \E i \in 1..Len(s) : s[i] = c
  THEN CHOOSE i \in 1..Len(s) : s[i] = c /\ \A j \in 1..(i - 1) : s[j] # c
  ELSE 0

\* s.split(c)
RECURSIVE split(_, _)
split(s, c) ==
  LET i == FirstIndexOf(s, c)
  IN IF i = 0 THEN <<s>>
     ELSE <<SubSeq(s, 1, i - 1)>> \o split(SubSeq(s, i + 1, Len(s)), c)

\* parts.filter(part => part)
filterNonEmpty(parts) == SelectSeq(parts, LAMBDA p : p # <<>>)

\* parts.join('/')
RECURSIVE join(_)
join(parts) ==
  IF parts = <<>> THEN <<>>
  ELSE IF Len(parts) = 1 THEN parts[1]
  ELSE parts[1] \o <<"/">> \o join(Tail(parts))

LowerOf(c) ==
  CASE c = "A" -> "a"
    [] c = "B" -> "b"
    [] c = "C" -> "c"
    [] c = "F" -> "f"
    [] c = "Pic" -> "pic"
    [] c = "JPG" -> "jpg"
    [] OTHER -> c

\* s.toLowerCase()
toLowerCase(s) == [i \in 1..Len(s) |-> LowerOf(s[i])]

(***************************************************************************)
(* Percent encoding                                                        *)
(***************************************************************************)
HexPairs == {<<"2", "0">>, <<"2", "5">>, <<"2", "F">>}

HexChar(p) ==
  CASE p = <<"2", "0">> -> " "
    [] p = <<"2", "5">> -> "%"
    [] p = <<"2", "F">> -> "/"

\* decodeURIComponent(s): ok = FALSE models the URIError thrown on a '%'
\* that is not followed by two hexadecimal digits
RECURSIVE decodeURIComponent(_)
decodeURIComponent(s) ==
  IF s = <<>> THEN [ok |-> TRUE, val |-> <<>>]
  ELSE IF s[1] = "%"
       THEN IF Len(s) >= 3 /\ <<s[2], s[3]>> \in HexPairs
            THEN LET r == decodeURIComponent(SubSeq(s, 4, Len(s)))
                 IN [ok |-> r.ok, val |-> <<HexChar(<<s[2], s[3]>>)>> \o r.val]
            ELSE [ok |-> FALSE, val |-> <<>>]
       ELSE LET r == decodeURIComponent(Tail(s))
            IN [ok |-> r.ok, val |-> <<s[1]>> \o r.val]

EncodeChar(c, component) ==
  CASE c = " " -> <<"%", "2", "0">>
    [] c = "%" -> <<"%", "2", "5">>
    [] c = "/" -> IF component THEN <<"%", "2", "F">> ELSE <<"/">>
    [] OTHER -> <<c>>

RECURSIVE EncodeAll(_, _)
EncodeAll(s, component) ==
  IF s = <<>> THEN <<>>
  ELSE EncodeChar(s[1], component) \o EncodeAll(Tail(s), component)

encodeURI(s) == EncodeAll(s, FALSE)

encodeURIComponent(s) == EncodeAll(s, TRUE)

\* xmlUtils.isAlreadyEncoded
isAlreadyEncoded(path) ==
  IF ~(\E i \in 1..Len(path) : path[i] = "%") THEN FALSE
  ELSE LET d == decodeURIComponent(path)
       IN IF d.ok THEN d.val # path ELSE FALSE

\* xmlUtils.generateHrefPath
generateHrefPath(path) ==
  IF isAlreadyEncoded(path) THEN path ELSE encodeURI(path)

\* xmlUtils.recursiveDecodeURI
RECURSIVE recursiveDecodeLoop(_, _)
recursiveDecodeLoop(decoded, previousDecoded) ==
  IF decoded # previousDecoded /\ (\E i \in 1..Len(decoded) : decoded[i] = "%")
  THEN LET d == decodeURIComponent(decoded)
       IN IF d.ok THEN recursiveDecodeLoop(d.val, decoded) ELSE decoded
  ELSE decoded

recursiveDecodeURI(path) == recursiveDecodeLoop(path, <<>>)

\* path.replace(/^\/+|\/+$/g, '')
RECURSIVE trimSlashes(_)
trimSlashes(s) ==
  IF s # <<>> /\ s[1] = "/" THEN trimSlashes(Tail(s))
  ELSE IF s # <<>> /\ s[Len(s)] = "/" THEN trimSlashes(SubSeq(s, 1, Len(s) - 1))
  ELSE s

\* String.prototype.trim() (the only whitespace of the alphabet is " ")
RECURSIVE trim(_)
trim(s) ==
  IF s # <<>> /\ s[1] = " " THEN trim(Tail(s))
  ELSE IF s # <<>> /\ s[Len(s)] = " " THEN trim(SubSeq(s, 1, Len(s) - 1))
  ELSE s

\* xmlUtils.normalizePath
normalizePath(path) == recursiveDecodeURI(trim(trimSlashes(path)))

(***************************************************************************)
(* The Eagle library (the backing store behind the eagle.* API)            *)
(***************************************************************************)
NameSet == {<<"A">>, <<"B", " ", "C">>}

FolderIdTok == <<"f1", "f2", "f3", "f4", "f5", "f6">>

\* The calls of the Eagle plugin API that the route handlers make
ApiCalls ==
  {"folder.getAll", "folder.getById", "item.get", "item.getById",
   "item.countAll", "item.getAll", "tag.get"}

\* A library: n folders 1..n, parent[i] = 0 for a root folder; the children
\* of a folder are listed in ascending index order. Folder 1 is named "A";
\* every other folder takes either name, so names may repeat. fail names the
\* API call that throws ("none": every call answers); count is the number
\* of items eagle.item.countAll() reports.
LibrariesOfSize(n) ==
  { [n |-> n, parent |-> p, fname |-> f, fail |-> "none", count |-> 2] :
      p \in { q \in [1..n -> 0..n] : \A i \in 1..n : q[i] < i },
      f \in { g \in [1..n -> NameSet] : g[1] = <<"A">> } }

Libraries == UNION { LibrariesOfSize(n) : n \in 1..MaxFolders }

\* the API call throws (a rejected promise)
Fails(lib, call) == lib.fail = call

RECURSIVE SetToSeqAsc(_)
SetToSeqAsc(S) ==
  IF S = {} THEN <<>>
  ELSE LET m == CHOOSE x \in S : \A y \in S : x <= y
       IN <<m>> \o SetToSeqAsc(S \ {m})

\* folder.children of the tree returned by eagle.folder.getAll()
\* (p = 0: the array of root folders itself)
childFolders(lib, p) == SetToSeqAsc({ i \in 1..lib.n : lib.parent[i] = p })

FolderIndex(lib, id) ==
  IF \E i \in 1..lib.n : FolderIdTok[i] = id
  THEN CHOOSE i \in 1..lib.n : FolderIdTok[i] = id
  ELSE 0

\* The items of the library, in the order the item API returns them.
\* Item i1 lies in the first folder, item i2 in the last one.
Items(lib) ==
  << [id |-> "i1", name |-> <<"photo">>, ext |-> <<"jpg">>, size |-> 1000,
      filePath |-> "path-i1", folders |-> {FolderIdTok[1]},
      tags |-> {<<"sunset">>}, fileExists |-> TRUE],
     [id |-> "i2", name |-> <<"Pic", ".", "JPG">>, ext |-> <<"jpg">>, size |-> 0,
      filePath |-> "path-i2", folders |-> {FolderIdTok[lib.n]},
      tags |-> {<<"sunset">>, <<"solo">>}, fileExists |-> FALSE] >>

\* eagle.tag.get()
TagList == << [id |-> "t1", name |-> <<"sunset">>], [id |-> "t2",
               name |-> <<"solo">>] >>

\* eagleUtils.getMimeType
getMimeType(ext) ==
  IF ext = <<>> THEN "application/octet-stream"
  ELSE IF toLowerCase(ext) = <<"jpg">> THEN "image/jpeg"
  ELSE "application/octet-stream"

\* The EagleWebDAVFile built from an Eagle item (size: item.size || 0)
toWebDAVFile(item) ==
  [path |-> item.filePath, id |-> item.id, name |-> item.name, ext |-> item.ext,
   size |-> item.size, kind |-> "file", mimeType |-> getMimeType(item.ext),
   children |-> <<>>]

mapFiles(items) == [k \in 1..Len(items) |-> toWebDAVFile(items[k])]

\* eagle.item.get({ folders: [id] })
itemsInFolder(lib, id) == SelectSeq(Items(lib), LAMBDA it : id \in it.folders)

\* eagle.item.get({ tags: [tagName] })
itemsWithTag(lib, tagName) == SelectSeq(Items(lib), LAMBDA it : tagName \in it.tags)

\* eagleUtils.getRootContainer
getRootContainer ==
  << [path |-> <<"/", "allItems">>, id |-> "allItems", name |-> <<"allItems">>,
      kind |-> "folder", children |-> <<>>],
     [path |-> <<"/", "folders">>, id |-> "folders", name |-> <<"folders">>,
      kind |-> "folder", children |-> <<>>],
     [path |-> <<"/", "hierarchy">>, id |-> "hierarchy", name |-> <<"hierarchy">>,
      kind |-> "folder", children |-> <<>>],
     [path |-> <<"/", "tags">>, id |-> "tags", name |-> <<"tags">>, kind |-> "folder",
      children |-> <<>>] >>

\* eagleUtils.getAllEagleFolders: collectAllFolders pushes a folder, then
\* recurses into its children, then goes on to the next sibling
RECURSIVE collectAllFolders(_, _)
collectAllFolders(lib, folderList) ==
  IF folderList = <<>> THEN <<>>
  ELSE <<Head(folderList)>>
       \o collectAllFolders(lib, childFolders(lib, Head(folderList)))
       \o collectAllFolders(lib, Tail(folderList))

getAllEagleFolders(lib) ==
  LET allFolders == collectAllFolders(lib, childFolders(lib, 0))
  IN IF Fails(lib, "folder.getAll") THEN <<>>
     ELSE
     [k \in 1..Len(allFolders) |->
        [path |-> <<"/", "folders", "/">> \o lib.fname[allFolders[k]],
         id |-> FolderIdTok[allFolders[k]], name |-> lib.fname[allFolders[k]],
         kind |-> "folder", children |-> <<>>]]

\* eagleUtils.getFolderById: the folder with its files only; <<>> is null,
\* which is also what the catch clause returns
getFolderById(lib, id) ==
  LET i == FolderIndex(lib, id)
  IN IF Fails(lib, "folder.getById") THEN <<>>
     ELSE IF i = 0 THEN <<>>
     ELSE IF Fails(lib, "item.get") THEN <<>>
     ELSE << [path |-> <<"/", "folders", "/", id>>, id |-> id, name |-> lib.fname[i],
              kind |-> "folder", children |-> mapFiles(itemsInFolder(lib, id))] >>

\* Faulty variant of searchForFolder: it looks through all the folders of a
\* level before it descends into their children (C10 tells it apart).
RECURSIVE searchForFolder_siblingsFirst(_, _, _)
searchForFolder_siblingsFirst(lib, folderList, name) ==
  IF folderList = <<>> THEN 0
  ELSE LET hits == SelectSeq(folderList, LAMBDA f : lib.fname[f] = name)
       IN IF hits # <<>> THEN hits[1]
          ELSE searchForFolder_siblingsFirst(lib,
                 SetToSeqAsc({ i \in 1..lib.n :
                                 \E k \in 1..Len(folderList) :
                                    lib.parent[i] = folderList[k] }),
                 name)

\* eagleUtils.getFolderByName.searchForFolder: 0 is null
RECURSIVE searchForFolder(_, _, _)
searchForFolder(lib, folderList, name) ==
  IF folderList = <<>> THEN 0
  ELSE IF lib.fname[Head(folderList)] = name THEN Head(folderList)
  ELSE LET found == searchForFolder(lib, childFolders(lib, Head(folderList)), name)
       IN IF found # 0 THEN found
          ELSE searchForFolder(lib, Tail(folderList), name)

\* eagleUtils.getFolderByName
getFolderByName(lib, name) ==
  LET foundFolder == searchForFolder(lib, childFolders(lib, 0), name)
  IN IF Fails(lib, "folder.getAll") THEN <<>>
     ELSE IF foundFolder = 0 THEN <<>>
     ELSE getFolderById(lib, FolderIdTok[foundFolder])

\* eagleUtils.getFileById: <<>> is null
getFileById(lib, id) ==
  LET hits == SelectSeq(Items(lib), LAMBDA it : it.id = id)
  IN IF Fails(lib, "item.getById") THEN <<>>
     ELSE IF hits = <<>> THEN <<>> ELSE <<toWebDAVFile(hits[1])>>

\* Faulty variant of getAllEagleItems: a library of exactly 5000 items is
\* already taken as too large (C16 tells it apart).
getAllEagleItems_atLimit(lib) ==
  IF Fails(lib, "item.countAll") THEN <<>>
  ELSE IF lib.count >= 5000 THEN <<>>
  ELSE IF Fails(lib, "item.getAll") THEN <<>>
  ELSE mapFiles(Items(lib))

\* eagleUtils.getAllEagleItems (countAll() > 5000 gives the empty list, and
\* so does the catch clause)
getAllEagleItems(lib) ==
  IF Fails(lib, "item.countAll") THEN <<>>
  ELSE IF lib.count > 5000 THEN <<>>
  ELSE IF Fails(lib, "item.getAll") THEN <<>>
  ELSE mapFiles(Items(lib))

\* eagleUtils.getAllEagleItems: the eagle.item calls it makes, in order
getAllEagleItemsCalls(lib) ==
  IF Fails(lib, "item.countAll") THEN <<"item.countAll">>
  ELSE IF lib.count > 5000 THEN <<"item.countAll">>
  ELSE <<"item.countAll", "item.getAll">>

\* eagleUtils.convertFoldersToWebDAV: files of the folder, then its child
\* folders converted recursively
RECURSIVE convertFoldersToWebDAV(_, _)
convertFoldersToWebDAV(lib, folders) ==
  IF folders = <<>> THEN <<>>
  ELSE LET folder == Head(folders)
           folderContents == getFolderById(lib, FolderIdTok[folder])
           files == IF folderContents = <<>> THEN <<>>
                    ELSE SelectSeq(folderContents[1].children,
                                   LAMBDA c : c.kind = "file")
           childList == childFolders(lib, folder)
           sub == IF childList # <<>> THEN convertFoldersToWebDAV(lib, childList)
                  ELSE <<>>
       IN << [path |-> <<"/">> \o lib.fname[folder], id |-> FolderIdTok[folder],
              name |-> lib.fname[folder], kind |-> "folder",
              children |-> files \o sub] >>
          \o convertFoldersToWebDAV(lib, Tail(folders))

\* Faulty variant of getHierarchicalFolders: it converts every folder of the
\* tree, not the root folders only, into a top-level entry (C7 tells it
\* apart).
getHierarchicalFolders_flattened(lib) ==
  convertFoldersToWebDAV(lib, collectAllFolders(lib, childFolders(lib, 0)))

\* eagleUtils.getHierarchicalFolders
getHierarchicalFolders(lib) ==
  IF Fails(lib, "folder.getAll") THEN <<>>
  ELSE convertFoldersToWebDAV(lib, childFolders(lib, 0))

\* eagleUtils.getFolderByPath, the walk over the path segments: the folder
\* reached, or 0 when a segment matches no folder at its level
RECURSIVE walkSegments(_, _, _)
walkSegments(lib, currentFolders, pathSegments) ==
  LET hits == SelectSeq(currentFolders,
                        LAMBDA f : lib.fname[f] = Head(pathSegments))
  IN IF hits = <<>> THEN 0
     ELSE IF Len(pathSegments) = 1 THEN hits[1]
     ELSE walkSegments(lib, childFolders(lib, hits[1]), Tail(pathSegments))

\* eagleUtils.getFolderByPath: <<>> is null
getFolderByPath(lib, path) ==
  IF path = <<"/">> \/ path = <<>>
  THEN << [path |-> <<"/">>, id |-> "root", name |-> <<"Index">>, kind |-> "folder",
           children |-> getHierarchicalFolders(lib)] >>
  ELSE LET pathSegments == filterNonEmpty(split(path, "/"))
       IN IF pathSegments = <<>> THEN <<>>
          ELSE IF Fails(lib, "folder.getAll") THEN <<>>
          ELSE LET targetFolder == walkSegments(lib, childFolders(lib, 0), pathSegments)
               IN IF targetFolder = 0 THEN <<>>
                  ELSE LET folderContents == getFolderById(lib, FolderIdTok[targetFolder])
                       IN IF folderContents = <<>> THEN <<>>
                          ELSE << [path |-> path, id |-> FolderIdTok[targetFolder],
                                   name |-> lib.fname[targetFolder],
                                   kind |-> "folder",
                                   children |-> SelectSeq(folderContents[1].children,
                                                          LAMBDA c : c.kind = "file")] >>

\* eagleUtils.getItemsByTag
getItemsByTag(lib, tagName) ==
  IF Fails(lib, "item.get") THEN <<>> ELSE mapFiles(itemsWithTag(lib, tagName))

\* routes/tags/index.ts getAllTagsWithCounts
getAllTagsWithCounts(lib) ==
  IF Fails(lib, "tag.get") THEN <<>>
  ELSE
  [k \in 1..Len(TagList) |->
     [path |-> <<"/", "tags", "/">> \o TagList[k].name, id |-> TagList[k].id,
      name |-> TagList[k].name, kind |-> "folder", children |-> <<>>]]

(***************************************************************************)
(* Authentication (webdav/auth/auth.ts)                                    *)
(***************************************************************************)
\* eagle.os.hostname()
Hostname == <<"h">>

\* The conditions of window.localStorage: it works; getItem throws; getItem
\* works and setItem throws
StorageModes == {"ok", "throws", "readonly"}

\* Faulty variant of getOrCreatePassword: the catch clause stores the
\* password it falls back to (C21 tells it apart).
getOrCreatePassword_storesFallback(storage, stored, uuid) ==
  IF storage = "ok" /\ stored # <<>> THEN [stored |-> stored, value |-> stored]
  ELSE [stored |-> uuid, value |-> uuid]

\* auth.getOrCreatePassword: the value returned and the new content of the
\* localStorage key 'eagle-webdav-password' (<<>>: key absent); uuid is the
\* value of the generateUUID() call whose result is returned. The catch
\* clause returns a newly generated password and stores nothing.
getOrCreatePassword(storage, stored, uuid) ==
  IF storage = "throws" THEN [stored |-> stored, value |-> uuid]
  ELSE IF stored # <<>> THEN [stored |-> stored, value |-> stored]
  ELSE IF storage = "readonly" THEN [stored |-> stored, value |-> uuid]
  ELSE [stored |-> uuid, value |-> uuid]

\* generateUUID() is called by getOrCreatePassword
Generates(storage, stored) == storage = "throws" \/ stored = <<>>

\* auth.getServerCredentials
getServerCredentials(storage, stored, uuid) ==
  LET pw == getOrCreatePassword(storage, stored, uuid)
  IN [stored |-> pw.stored, username |-> Hostname, password |-> pw.value]

\* An Authorization header: scheme "" is an absent header; text is the
\* ASCII text the base64 payload decodes to; b64ok = FALSE is a payload for
\* which Buffer.from throws
NoAuth == [scheme |-> "", b64ok |-> TRUE, text |-> <<>>]

\* auth.parseBasicAuth: <<>> is null
parseBasicAuth(authHeader) ==
  IF authHeader.scheme # "Basic" THEN <<>>
  ELSE IF ~authHeader.b64ok THEN <<>>
  ELSE LET parts == split(authHeader.text, ":")
           username == parts[1]
           password == IF Len(parts) >= 2 THEN parts[2] ELSE <<>>
       IN IF username = <<>> \/ password = <<>> THEN <<>>
          ELSE << [username |-> username, password |-> password] >>

\* auth.authenticateRequest (success flag)
authenticateRequest(authHeader, storage, stored, uuid) ==
  IF authHeader.scheme = "" THEN FALSE
  ELSE LET parsedAuth == parseBasicAuth(authHeader)
       IN IF parsedAuth = <<>> THEN FALSE
          ELSE LET expectedCredentials == getServerCredentials(storage, stored, uuid)
               IN parsedAuth[1].username = expectedCredentials.username
                  /\ parsedAuth[1].password = expectedCredentials.password

(***************************************************************************)
(* Responses                                                               *)
(***************************************************************************)
\* The response object after handleRequest has set the CORS headers.
\* status 0: no status line written; bodyStatus: the status code named in a
\* WebDAV-XML error body (0: none); allow = {}: no Allow header;
\* contentLength -1: header not set; threw: an exception left the handler;
\* api: the eagle.item calls getAllEagleItems made for the request, in order;
\* corsMethods: the Access-Control-Allow-Methods header; stream: the read
\* stream piped into the response ("": none, "open", "ended", "destroyed":
\* res.destroy() was called); heads: the calls of res.writeHead
FreshRes ==
  [status |-> 0, contentType |-> "", body |-> "none", bodyStatus |-> 0,
   wwwAuthenticate |-> FALSE, allow |-> {}, elems |-> <<>>,
   provider |-> "none", calls |-> {}, served |-> "",
   contentLength |-> -1, disposition |-> <<>>, threw |-> FALSE,
   api |-> <<>>,
   corsMethods |-> {"GET", "POST", "PUT", "DELETE", "OPTIONS", "PROPFIND", "COPY",
                    "MOVE", "MKCOL", "LOCK", "UNLOCK", "PROPPATCH"},
   stream |-> "", heads |-> 0]

\* server.sendResponse: a JSON body
sendResponse(res, statusCode) ==
  [res EXCEPT !.heads = @ + 1, !.status = statusCode, !.contentType = "application/json",
              !.body = "json"]

\* server.sendXMLResponse / res.writeHead(207, ...) + res.end(xml) with a
\* multistatus document
sendMultistatus(res, elems) ==
  [res EXCEPT !.heads = @ + 1, !.status = 207, !.contentType = "application/xml",
              !.body = "multistatus", !.elems = elems]

\* server.sendXMLResponse / res.writeHead(404, ...) + res.end(errorXML) with
\* a <D:error> document naming bodyStatus
sendErrorXML(res, statusCode, bodyStatus) ==
  [res EXCEPT !.heads = @ + 1, !.status = statusCode, !.contentType = "application/xml",
              !.body = "xmlerror", !.bodyStatus = bodyStatus]

\* Faulty variant of sendReadOnlyError: the refusal goes out through
\* sendResponse, as JSON (C2 tells it apart).
sendReadOnlyError_asJson(res) == sendResponse(res, 403)

\* server.sendReadOnlyError
sendReadOnlyError(res) ==
  [res EXCEPT !.heads = @ + 1, !.status = 403, !.contentType = "application/xml",
              !.body = "xmlerror", !.bodyStatus = 403]

\* server.sendMethodNotAllowedForCollection
sendMethodNotAllowedForCollection(res) ==
  [res EXCEPT !.heads = @ + 1, !.status = 405, !.contentType = "application/xml",
              !.body = "xmlerror", !.bodyStatus = 405,
              !.allow = {"OPTIONS", "PROPFIND", "HEAD"}]

\* auth.sendAuthChallenge
sendAuthChallenge(res) ==
  sendResponse([res EXCEPT !.wwwAuthenticate = TRUE], 401)

\* an exception thrown out of a route handler
Throw(res) == [res EXCEPT !.threw = TRUE]

Ran(res, provider, calls) ==
  [res EXCEPT !.provider = provider, !.calls = res.calls \cup calls]

\* await getAllEagleItems() has run
RanAllItems(lib, res) ==
  [res EXCEPT !.calls = res.calls \cup {"getAllEagleItems"},
              !.api = res.api \o getAllEagleItemsCalls(lib)]

\* fs.existsSync(filePath)
existsSync(lib, filePath) ==
  \E k \in 1..Len(Items(lib)) :
     Items(lib)[k].filePath = filePath /\ Items(lib)[k].fileExists

\* server.serveFileContent
serveFileContent(lib, file, res) ==
  LET hdr == [res EXCEPT !.contentType = file.mimeType,
                         !.contentLength = file.size,
                         !.disposition = encodeURIComponent(
                            IF file.name # <<>> THEN file.name ELSE <<"download">>),
                         !.calls = res.calls \cup {"serveFileContent"}]
  IN IF file.path # "" /\ existsSync(lib, file.path)
     THEN [hdr EXCEPT !.heads = @ + 1, !.status = 200, !.body = "file", !.served = file.id,
                      !.stream = "open"]
     ELSE [hdr EXCEPT !.heads = @ + 1, !.status = 404, !.body = "text"]

\* res.headersSent: writeHead has been called
headersSent(res) == res.status # 0

\* Faulty variant of streamError: the handler writes the 500 response
\* without looking at res.headersSent (C25 tells it apart).
streamError_always500(res) ==
  [res EXCEPT !.heads = @ + 1, !.status = 500, !.body = "text", !.stream = "ended"]

\* server.serveFileContent, the 'error' handler of the read stream
streamError(res) ==
  IF ~headersSent(res)
  THEN [res EXCEPT !.heads = @ + 1, !.status = 500, !.body = "text", !.stream = "ended"]
  ELSE [res EXCEPT !.stream = "destroyed"]

(***************************************************************************)
(* GET and HEAD route handlers                                             *)
(***************************************************************************)
\* item.name + (ext ? `.${ext}` : '')
nameWithExt(item) ==
  item.name \o (IF item.ext # <<>> THEN <<".">> \o item.ext ELSE <<>>)

\* the file-matching loop of handleFolderFileRequest, handleTagFileRequest,
\* handleAllItemsFileRequest and handleAllItemsPROPFIND
matchByName(items, filename) ==
  SelectSeq(items, LAMBDA item :
     item.kind = "file"
     /\ (nameWithExt(item) = filename \/ item.name = filename
         \/ toLowerCase(nameWithExt(item)) = toLowerCase(filename)
         \/ toLowerCase(item.name) = toLowerCase(filename)))

\* the file-matching loop of handleHierarchyFileRequest
matchByFullName(items, filename) ==
  SelectSeq(items, LAMBDA item :
     item.kind = "file"
     /\ (nameWithExt(item) = filename
         \/ toLowerCase(nameWithExt(item)) = toLowerCase(filename)))

\* the tail shared by the file-request helpers: getFileById, then serve
serveById(lib, id, res) ==
  LET file == getFileById(lib, id)
      r == Ran(res, res.provider, {"getFileById"})
  IN IF file = <<>> THEN sendResponse(r, 404)
     ELSE serveFileContent(lib, file[1], r)

\* routes/folders/index.ts handleFolderFileRequest
handleFolderFileRequest(lib, folderName, filename, res) ==
  LET folder == getFolderByName(lib, folderName)
      r == Ran(res, res.provider, {"getFolderByName"})
  IN IF folder = <<>> THEN sendResponse(r, 404)
     ELSE IF folder[1].children = <<>> THEN sendResponse(r, 404)
     ELSE LET hits == matchByName(folder[1].children, filename)
          IN IF hits = <<>> THEN sendResponse(r, 404)
             ELSE serveById(lib, hits[1].id, r)

\* routes/folders/index.ts handleFolderGET
handleFolderGET(lib, pathname, res0) ==
  LET res == Ran(res0, "folders", {})
      pathParts == split(substring(pathname, 3), "/")
  IN IF pathname = <<"/", "folders">> \/ pathname = <<"/", "folders", "/">>
     THEN sendResponse(res, 405)
     ELSE IF Len(pathParts) = 1 /\ pathParts[1] # <<>>
     THEN sendResponse(res, 405)
     ELSE IF Len(pathParts) >= 2 /\ pathParts[1] # <<>> /\ pathParts[2] # <<>>
     THEN LET folderName == decodeURIComponent(pathParts[1])
              filename == join(SubSeq(pathParts, 2, Len(pathParts)))
          IN IF ~folderName.ok THEN Throw(res)
             ELSE handleFolderFileRequest(lib, folderName.val, filename, res)
     ELSE sendResponse(res, 404)

\* routes/hierarchy/index.ts handleHierarchyFileRequest
handleHierarchyFileRequest(lib, folderPath, filename, res) ==
  LET folder == getFolderByPath(lib, folderPath)
      r == Ran(res, res.provider, {"getFolderByPath"})
  IN IF folder = <<>> THEN sendResponse(r, 404)
     ELSE IF folder[1].children = <<>> THEN sendResponse(r, 404)
     ELSE LET hits == matchByFullName(folder[1].children, filename)
          IN IF hits = <<>> THEN sendResponse(r, 404)
             ELSE serveById(lib, hits[1].id, r)

\* routes/hierarchy/index.ts handleIndexGET
handleIndexGET(lib, pathname, res0) ==
  LET res == Ran(res0, "hierarchy", {})
  IN IF pathname = <<"/", "hierarchy">> \/ pathname = <<"/", "hierarchy", "/">>
     THEN sendResponse(res, 405)
     ELSE IF startsWith(pathname, <<"/", "hierarchy", "/">>)
     THEN LET hierarchyPath == normalizePath(stripTrailingSlash(substring(pathname, 3)))
              pathParts == filterNonEmpty(split(hierarchyPath, "/"))
          IN IF Len(pathParts) = 1 THEN sendResponse(res, 405)
             ELSE IF Len(pathParts) >= 2
             THEN handleHierarchyFileRequest(lib,
                    <<"/">> \o join(SubSeq(pathParts, 1, Len(pathParts) - 1)),
                    pathParts[Len(pathParts)], res)
             ELSE sendResponse(res, 404)
     ELSE sendResponse(res, 404)

\* routes/tags/index.ts handleTagFileRequest
handleTagFileRequest(lib, tagName, filename, res) ==
  LET items == getItemsByTag(lib, tagName)
      r == Ran(res, res.provider, {"getItemsByTag"})
  IN IF items = <<>> THEN sendResponse(r, 404)
     ELSE LET hits == matchByName(items, filename)
          IN IF hits = <<>> THEN sendResponse(r, 404)
             ELSE serveById(lib, hits[1].id, r)

\* routes/tags/index.ts handleTagsGET
handleTagsGET(lib, pathname, res0) ==
  LET res == Ran(res0, "tags", {})
  IN IF pathname = <<"/", "tags">> \/ pathname = <<"/", "tags", "/">>
     THEN sendResponse(res, 405)
     ELSE IF startsWith(pathname, <<"/", "tags", "/">>)
     THEN LET pathParts == filterNonEmpty(split(substring(pathname, 3), "/"))
          IN IF Len(pathParts) = 1 THEN sendResponse(res, 405)
             ELSE IF Len(pathParts) >= 2
             THEN LET tagName == decodeURIComponent(pathParts[1])
                      filename == join(SubSeq(pathParts, 2, Len(pathParts)))
                  IN IF ~tagName.ok THEN Throw(res)
                     ELSE handleTagFileRequest(lib, tagName.val, filename, res)
             ELSE sendResponse(res, 404)
     ELSE sendResponse(res, 404)

\* routes/allItems/index.ts handleAllItemsFileRequest
handleAllItemsFileRequest(lib, filename, res) ==
  LET items == getAllEagleItems(lib)
      r == RanAllItems(lib, res)
  IN IF items = <<>> THEN sendResponse(r, 404)
     ELSE LET hits == matchByName(items, filename)
          IN IF hits = <<>> THEN sendResponse(r, 404)
             ELSE serveById(lib, hits[1].id, r)

\* routes/allItems/index.ts handleAllItemsGET
handleAllItemsGET(lib, pathname, res0) ==
  LET res == Ran(res0, "allItems", {})
  IN IF pathname = <<"/", "allItems">> \/ pathname = <<"/", "allItems", "/">>
     THEN sendResponse(res, 405)
     ELSE IF startsWith(pathname, <<"/", "allItems", "/">>)
     THEN LET filename == decodeURIComponent(substring(pathname, 3))
          IN IF ~filename.ok THEN Throw(res)
             ELSE handleAllItemsFileRequest(lib, filename.val, res)
     ELSE sendResponse(res, 404)

\* Faulty variant of fileIdOf: the id is read from the last segment of the
\* path, not from the first (C17 tells it apart).
fileIdOf_lastSegment(pathname) ==
  LET parts == split(stripTrailingSlash(substring(pathname, 3)), "/")
      last == parts[Len(parts)]
  IN IF Len(last) = 1 THEN last[1] ELSE ""

\* the id of /files/{id} and /files/{id}/{filename}
fileIdOf(pathname) ==
  LET first == split(stripTrailingSlash(substring(pathname, 3)), "/")[1]
  IN IF Len(first) = 1 THEN first[1] ELSE ""

\* routes/files/index.ts handleFilesGET
handleFilesGET(lib, pathname, res0) ==
  LET res == Ran(res0, "files", {})
  IN IF startsWith(pathname, <<"/", "files", "/">>)
     THEN serveById(lib, fileIdOf(pathname), res)
     ELSE sendResponse(res, 404)

\* routes/files/index.ts handleFilesHEAD
handleFilesHEAD(lib, pathname, res0) ==
  LET res == Ran(res0, "files", {})
  IN IF startsWith(pathname, <<"/", "files", "/">>)
     THEN LET file == getFileById(lib, fileIdOf(pathname))
              r == Ran(res, "files", {"getFileById"})
          IN IF file = <<>> THEN [r EXCEPT !.heads = @ + 1, !.status = 404]
             ELSE [r EXCEPT !.heads = @ + 1, !.status = 200, !.contentType = file[1].mimeType,
                            !.contentLength = file[1].size]
     ELSE [res EXCEPT !.heads = @ + 1, !.status = 404]

isRoute(pathname, ns) ==
  pathname = <<"/", ns>> \/ pathname = <<"/", ns, "/">>
  \/ startsWith(pathname, <<"/", ns, "/">>)

\* server.handleGetRequest
handleGetRequest(lib, pathname, res) ==
  IF pathname = <<"/">> THEN sendMethodNotAllowedForCollection(res)
  ELSE IF isRoute(pathname, "allItems") THEN handleAllItemsGET(lib, pathname, res)
  ELSE IF isRoute(pathname, "folders") THEN handleFolderGET(lib, pathname, res)
  ELSE IF isRoute(pathname, "hierarchy") THEN handleIndexGET(lib, pathname, res)
  ELSE IF isRoute(pathname, "tags") THEN handleTagsGET(lib, pathname, res)
  ELSE IF startsWith(pathname, <<"/", "files", "/">>) THEN handleFilesGET(lib, pathname, res)
  ELSE IF pathname = <<"/", "health">> THEN sendResponse(res, 200)
  ELSE sendResponse(res, 404)

\* server.handleHeadRequest
handleHeadRequest(lib, pathname, res) ==
  IF startsWith(pathname, <<"/", "files", "/">>) THEN handleFilesHEAD(lib, pathname, res)
  ELSE [res EXCEPT !.heads = @ + 1, !.status = 200]

(***************************************************************************)
(* Multistatus generators                                                  *)
(***************************************************************************)
\* One <D:response> element: its href, whether its resourcetype is a
\* collection, whether it is the block the generator emits for the requested
\* resource itself, the id of the entity behind it ("" for the requested
\* resource) and its displayname.
Elem(href, collection, self, id, name) ==
  [id |-> id, name |-> name, href |-> href, collection |-> collection, self |-> self]

EscapeXMLChar(c) ==
  CASE c = "&" -> <<"&amp;">>
    [] c = "<" -> <<"&lt;">>
    [] c = ">" -> <<"&gt;">>
    [] c = "\"" -> <<"&quot;">>
    [] c = "'" -> <<"&#39;">>
    [] OTHER -> <<c>>

\* escapeXML of xmlUtils.ts and routes/tags/xml.ts
RECURSIVE escapeXML(_)
escapeXML(s) ==
  IF s = <<>> THEN <<>> ELSE EscapeXMLChar(s[1]) \o escapeXML(Tail(s))

\* the display name with the extension appended unless the name already
\* ends with it, case-insensitively
displayNameOf(item) ==
  IF item.ext # <<>>
     /\ ~endsWith(toLowerCase(item.name), <<".">> \o toLowerCase(item.ext))
  THEN item.name \o <<".">> \o item.ext
  ELSE item.name

\* routes/folders/xml.ts generateFolderListXML
generateFolderListXML(pathname, folders, isDepthZero) ==
  <<Elem(pathname, TRUE, TRUE, "", <<"Folders">>)>>
  \o (IF ~isDepthZero
      THEN [k \in 1..Len(folders) |->
              Elem(<<"/", "folders", "/">> \o folders[k].name, TRUE, FALSE,
                   folders[k].id, folders[k].name)]
      ELSE <<>>)

\* Faulty variant of shouldIncludeCurrentDirectory: the depth-zero case is
\* missing (C6 tells it apart).
shouldIncludeCurrentDirectory_rootsOnly(pathname, isDepthZero) ==
  \/ pathname = <<"/">>
  \/ pathname = <<"/", "folders">>
  \/ pathname = <<"/", "allItems">>
  \/ pathname = <<"/", "tags">>
  \/ pathname = <<"/", "uncategorized">>

\* routes/folders/xml.ts generateFolderContentXML: shouldIncludeCurrentDirectory
shouldIncludeCurrentDirectory(pathname, isDepthZero) ==
  \/ pathname = <<"/">>
  \/ pathname = <<"/", "folders">>
  \/ pathname = <<"/", "allItems">>
  \/ pathname = <<"/", "tags">>
  \/ pathname = <<"/", "uncategorized">>
  \/ isDepthZero

\* routes/folders/xml.ts generateFolderContentXML: the element of one child
folderContentChild(item) ==
  IF item.kind = "folder"
  THEN IF item.id \in {"allItems", "uncategorized", "folders", "tags"}
       THEN Elem(item.path, TRUE, FALSE, item.id, item.name)
       ELSE Elem(<<"/", "folders", "/">> \o item.name, TRUE, FALSE, item.id, item.name)
  ELSE Elem(<<"/", "files", "/", item.id>>, FALSE, FALSE, item.id, displayNameOf(item))

\* routes/folders/xml.ts generateFolderContentXML
generateFolderContentXML(pathname, items, isDepthZero, folderName) ==
  (IF shouldIncludeCurrentDirectory(pathname, isDepthZero)
   THEN <<Elem(pathname, TRUE, TRUE, "",
               IF folderName # <<>> THEN folderName
               ELSE IF pathname = <<"/">> THEN <<"Eagle Library">>
               ELSE IF pathname = <<"/", "folders">> THEN <<"Folders">>
               ELSE LET parts == split(pathname, "/")
                    IN IF parts[Len(parts)] # <<>> THEN parts[Len(parts)]
                       ELSE <<"Unknown">>)>>
   ELSE <<>>)
  \o (IF ~isDepthZero
      THEN [k \in 1..Len(items) |-> folderContentChild(items[k])]
      ELSE <<>>)

\* routes/hierarchy/xml.ts generateIndexContentXML: the element of one child
indexContentChild(requestPath, item) ==
  LET sep == IF endsWith(requestPath, <<"/">>) THEN <<>> ELSE <<"/">>
      itemPath == IF item.kind = "folder"
                  THEN requestPath \o sep \o encodeURI(item.name) \o <<"/">>
                  ELSE requestPath \o sep \o encodeURI(nameWithExt(item))
  IN IF item.kind = "folder"
     THEN Elem(generateHrefPath(itemPath), TRUE, FALSE, item.id, escapeXML(item.name))
     ELSE Elem(generateHrefPath(itemPath), FALSE, FALSE, item.id,
               escapeXML(nameWithExt(item)))

\* routes/hierarchy/xml.ts generateIndexContentXML
generateIndexContentXML(requestPath, items, isDepthZero, displayName) ==
  <<Elem(generateHrefPath(requestPath), TRUE, TRUE, "", escapeXML(displayName))>>
  \o (IF isDepthZero THEN <<>>
      ELSE [k \in 1..Len(items) |-> indexContentChild(requestPath, items[k])])

\* routes/tags/xml.ts generateTagFolderXML
generateTagFolderXML(basePath, tag) ==
  Elem(escapeXML(basePath \o <<"/">> \o encodeURIComponent(tag.name)) \o <<"/">>,
       TRUE, FALSE, tag.id, escapeXML(tag.name))

\* routes/tags/xml.ts generateFileXML
generateFileXML(basePath, file) ==
  Elem(escapeXML(basePath \o <<"/">> \o encodeURIComponent(nameWithExt(file))),
       FALSE, FALSE, file.id, escapeXML(nameWithExt(file)))

\* routes/tags/xml.ts generateTagsListXML (tagName <<>>: not given)
generateTagsListXML(requestPath, items, depthZero, tagName) ==
  <<Elem(escapeXML(requestPath) \o <<"/">>, TRUE, TRUE, "",
         escapeXML(IF tagName # <<>> THEN tagName ELSE <<"tags">>))>>
  \o (IF depthZero THEN <<>>
      ELSE IF tagName # <<>>
      THEN LET files == SelectSeq(items, LAMBDA it : it.kind = "file")
           IN [k \in 1..Len(files) |-> generateFileXML(requestPath, files[k])]
      ELSE [k \in 1..Len(items) |-> generateTagFolderXML(requestPath, items[k])])

\* routes/allItems/xml.ts generateAllItemsListXML
generateAllItemsListXML(pathname, items, isDepthZero) ==
  <<Elem(generateHrefPath(pathname), TRUE, TRUE, "", <<"All Items">>)>>
  \o (IF ~isDepthZero
      THEN [k \in 1..Len(items) |->
              Elem(generateHrefPath(<<"/", "files", "/", items[k].id, "/">>
                                    \o displayNameOf(items[k])),
                   FALSE, FALSE, items[k].id, escapeXML(displayNameOf(items[k])))]
      ELSE <<>>)

\* server.generateSingleFilePROPFIND
generateSingleFilePROPFIND(requestPath, file) ==
  <<Elem(encodeURI(requestPath), FALSE, TRUE, "", nameWithExt(file))>>

(***************************************************************************)
(* PROPFIND route handlers                                                 *)
(***************************************************************************)
\* req.headers.depth || fallback  ("": header absent)
depthOr(depthHeader, fallback) ==
  IF depthHeader # "" THEN depthHeader ELSE fallback

\* routes/folders/index.ts handleFolderPROPFIND
handleFolderPROPFIND(lib, pathname, depthHeader, res0) ==
  LET res == Ran(res0, "folders", {})
      depth == depthOr(depthHeader, "1")
  IN IF pathname = <<"/", "folders">> \/ pathname = <<"/", "folders", "/">>
     THEN sendMultistatus(Ran(res, "folders", {"getAllEagleFolders"}),
            generateFolderListXML(<<"/", "folders">>, getAllEagleFolders(lib), depth = "0"))
     ELSE IF startsWith(pathname, <<"/", "folders", "/">>)
     THEN LET folderName == decodeURIComponent(stripTrailingSlash(substring(pathname, 3)))
          IN IF ~folderName.ok THEN Throw(res)
             ELSE IF folderName.val = <<>>
             THEN sendMultistatus(Ran(res, "folders", {"getAllEagleFolders"}),
                    generateFolderListXML(<<"/", "folders">>, getAllEagleFolders(lib),
                                          depth = "0"))
             ELSE LET folder == getFolderByName(lib, folderName.val)
                      r == Ran(res, "folders", {"getFolderByName"})
                  IN IF folder = <<>> THEN sendErrorXML(r, 404, 404)
                     ELSE sendMultistatus(r,
                            generateFolderContentXML(pathname, folder[1].children,
                                                     depth = "0", folder[1].name))
     ELSE sendErrorXML(res, 404, 404)

\* routes/hierarchy/index.ts handleIndexPROPFIND
handleIndexPROPFIND(lib, pathname, depthHeader, res0) ==
  LET res == Ran(res0, "hierarchy", {})
      isDepthZero == depthOr(depthHeader, "infinity") = "0"
  IN IF pathname = <<"/", "hierarchy">> \/ pathname = <<"/", "hierarchy", "/">>
     THEN sendMultistatus(Ran(res, "hierarchy", {"getHierarchicalFolders"}),
            generateIndexContentXML(pathname, getHierarchicalFolders(lib),
                                    isDepthZero, <<"Hierarchy">>))
     ELSE LET hierarchyPath == normalizePath(stripTrailingSlash(substring(pathname, 3)))
              folder == getFolderByPath(lib, <<"/">> \o hierarchyPath)
              r == Ran(res, "hierarchy", {"getFolderByPath"})
          IN IF folder = <<>> THEN sendErrorXML(r, 404, 404)
             ELSE sendMultistatus(r,
                    generateIndexContentXML(<<"/", "hierarchy", "/">> \o hierarchyPath,
                                            folder[1].children, isDepthZero,
                                            folder[1].name))

\* routes/tags/index.ts handleTagsPROPFIND
handleTagsPROPFIND(lib, pathname, depthHeader, res0) ==
  LET res == Ran(res0, "tags", {})
      depth == depthOr(depthHeader, "1")
  IN IF pathname = <<"/", "tags">> \/ pathname = <<"/", "tags", "/">>
     THEN sendMultistatus(Ran(res, "tags", {"getAllTagsWithCounts"}),
            generateTagsListXML(<<"/", "tags">>, getAllTagsWithCounts(lib), depth = "0",
                                <<>>))
     ELSE IF startsWith(pathname, <<"/", "tags", "/">>)
     THEN LET tagName == decodeURIComponent(stripTrailingSlash(substring(pathname, 3)))
          IN IF ~tagName.ok THEN Throw(res)
             ELSE IF tagName.val = <<>>
             THEN sendMultistatus(Ran(res, "tags", {"getAllTagsWithCounts"}),
                    generateTagsListXML(<<"/", "tags">>, getAllTagsWithCounts(lib),
                                        depth = "0", <<>>))
             \* getItemsByTag returns an array, never null: the 404 branch
             \* guarded by !items cannot be taken
             ELSE sendMultistatus(Ran(res, "tags", {"getItemsByTag"}),
                    generateTagsListXML(<<"/", "tags", "/">> \o tagName.val,
                                        getItemsByTag(lib, tagName.val),
                                        depth = "0", tagName.val))
     ELSE sendErrorXML(res, 404, 404)

\* routes/allItems/index.ts handleAllItemsPROPFIND
handleAllItemsPROPFIND(lib, pathname, depthHeader, res0) ==
  LET res == Ran(res0, "allItems", {})
      depth == depthOr(depthHeader, "1")
  IN IF pathname = <<"/", "allItems">> \/ pathname = <<"/", "allItems", "/">>
     THEN sendMultistatus(RanAllItems(lib, res),
            generateAllItemsListXML(<<"/", "allItems">>, getAllEagleItems(lib),
                                    depth = "0"))
     ELSE IF startsWith(pathname, <<"/", "allItems", "/">>)
     THEN LET filename == decodeURIComponent(substring(pathname, 3))
              r == RanAllItems(lib, res)
          IN IF ~filename.ok THEN Throw(res)
             ELSE LET hits == matchByName(getAllEagleItems(lib), filename.val)
                  IN IF hits = <<>> THEN sendErrorXML(r, 404, 404)
                     ELSE LET file == getFileById(lib, hits[1].id)
                              r2 == Ran(r, "allItems", {"getFileById"})
                          IN IF file # <<>>
                             THEN sendMultistatus(r2,
                                    generateSingleFilePROPFIND(pathname, file[1]))
                             ELSE sendErrorXML(r2, 404, 404)
     ELSE sendErrorXML(res, 404, 404)

\* routes/files/index.ts handleFilesPROPFIND
handleFilesPROPFIND(lib, pathname, res0) ==
  LET res == Ran(res0, "files", {})
  IN IF startsWith(pathname, <<"/", "files", "/">>)
     THEN LET file == getFileById(lib, fileIdOf(pathname))
              r == Ran(res, "files", {"getFileById"})
          IN IF file = <<>> THEN sendErrorXML(r, 404, 404)
             ELSE sendMultistatus(r, generateSingleFilePROPFIND(pathname, file[1]))
     ELSE sendErrorXML(res, 404, 404)

\* server.handlePropfindRequest (the body of the 'end' callback)
handlePropfindRequest(lib, pathname, depthHeader, res) ==
  LET isDepthZero == depthOr(depthHeader, "infinity") = "0"
      r == IF pathname = <<"/">>
           THEN sendMultistatus(Ran(res, "root", {"getRootContainer"}),
                  generateFolderContentXML(pathname, getRootContainer, isDepthZero, <<>>))
           ELSE IF isRoute(pathname, "allItems")
           THEN handleAllItemsPROPFIND(lib, pathname, depthHeader, res)
           ELSE IF pathname = <<"/", "folders">> \/ pathname = <<"/", "folders", "/">>
           THEN handleFolderPROPFIND(lib, pathname, depthHeader, res)
           ELSE IF isRoute(pathname, "hierarchy")
           THEN handleIndexPROPFIND(lib, pathname, depthHeader, res)
           ELSE IF isRoute(pathname, "tags")
           THEN handleTagsPROPFIND(lib, pathname, depthHeader, res)
           ELSE IF startsWith(pathname, <<"/", "folders", "/">>)
           THEN handleFolderPROPFIND(lib, pathname, depthHeader, res)
           ELSE IF startsWith(pathname, <<"/", "files", "/">>)
           THEN handleFilesPROPFIND(lib, pathname, res)
           ELSE sendResponse(res, 404)
  IN IF r.threw THEN sendResponse([r EXCEPT !.threw = FALSE], 500) ELSE r

(***************************************************************************)
(* The dispatcher                                                          *)
(***************************************************************************)
WriteMethods ==
  {"COPY", "MOVE", "MKCOL", "DELETE", "PUT", "LOCK", "UNLOCK", "PROPPATCH"}

\* url.parse(req.url).pathname || '/'
pathnameOf(url) == IF url # <<>> THEN url ELSE <<"/">>

\* Faulty variant of handleRequest: the route handlers run outside any
\* try/catch, so what they throw leaves the request handler (C28 tells it
\* apart).
handleRequest_noCatch(lib, storage, stored, uuid, r) ==
  IF r.method = "OPTIONS" THEN [FreshRes EXCEPT !.heads = @ + 1, !.status = 200]
  ELSE IF ~authenticateRequest(r.authorization, storage, stored, uuid)
  THEN sendAuthChallenge(FreshRes)
  ELSE LET pathname == pathnameOf(r.url)
       IN IF r.method = "GET" THEN handleGetRequest(lib, pathname, FreshRes)
          ELSE IF r.method = "PROPFIND"
          THEN handlePropfindRequest(lib, pathname, r.depth, FreshRes)
          ELSE IF r.method = "HEAD" THEN handleHeadRequest(lib, pathname, FreshRes)
          ELSE IF r.method \in WriteMethods THEN sendReadOnlyError(FreshRes)
          ELSE sendResponse(FreshRes, 405)

\* server.handleRequest: the response written for request r
handleRequest(lib, storage, stored, uuid, r) ==
  IF r.method = "OPTIONS" THEN [FreshRes EXCEPT !.heads = @ + 1, !.status = 200]
  ELSE IF ~authenticateRequest(r.authorization, storage, stored, uuid)
  THEN sendAuthChallenge(FreshRes)
  ELSE LET pathname == pathnameOf(r.url)
           out == IF r.method = "GET" THEN handleGetRequest(lib, pathname, FreshRes)
                  ELSE IF r.method = "PROPFIND"
                  THEN handlePropfindRequest(lib, pathname, r.depth, FreshRes)
                  ELSE IF r.method = "HEAD" THEN handleHeadRequest(lib, pathname, FreshRes)
                  ELSE IF r.method \in WriteMethods THEN sendReadOnlyError(FreshRes)
                  ELSE sendResponse(FreshRes, 405)
       IN IF out.threw THEN sendResponse([out EXCEPT !.threw = FALSE], 500)
          ELSE out

\* the localStorage password key after handleRequest: getOrCreatePassword
\* runs when a Basic header was parsed
storedAfterRequest(storage, stored, uuid, r) ==
  IF r.method # "OPTIONS" /\ parseBasicAuth(r.authorization) # <<>>
  THEN getOrCreatePassword(storage, stored, uuid).stored
  ELSE stored

(***************************************************************************)
(* Requests clients send                                                   *)
(***************************************************************************)
\* values generateUUID() may return
UUIDs == {<<"u1">>, <<"u2">>}

BasicAuth(text) == [scheme |-> "Basic", b64ok |-> TRUE, text |-> text]

ValidAuth == BasicAuth(<<"h", ":", "p">>)

MainAuths == {ValidAuth, NoAuth}

AllAuths ==
  { NoAuth,
    [scheme |-> "Bearer", b64ok |-> TRUE, text |-> <<"h", ":", "p">>],
    [scheme |-> "Basic", b64ok |-> FALSE, text |-> <<>>] }
  \cup { BasicAuth(t) : t \in { <<>>, <<"h">>, <<"h", ":">>, <<":", "p">>,
                                <<"h", ":", "p">>, <<"h", ":", "q">>,
                                <<"x", ":", "p">>, <<"h", ":", "p", "x">>,
                                <<"h", ":", "p", ":", "x">> } }

DepthHeaders == {"", "0", "1", "infinity"}

Namespaces == {"allItems", "folders", "hierarchy", "tags", "files"}

NameSegs == { encodeURIComponent(n) : n \in NameSet }

FileSegs == { <<"photo", ".", "jpg">>, <<"Pic", ".", "JPG", ".", "jpg">> }

SegsOf(ns) ==
  CASE ns = "folders" -> NameSegs \cup FileSegs
    [] ns = "hierarchy" -> NameSegs \cup FileSegs
    [] ns = "tags" -> {<<"sunset">>, <<"notag">>, <<"photo", ".", "jpg">>}
    [] ns = "allItems" -> {<<"photo", ".", "jpg">>, <<"Pic", ".", "JPG">>, <<"nofile">>}
    [] ns = "files" -> {<<"i1">>, <<"noid">>, <<"photo", ".", "jpg">>}
    [] OTHER -> {}

\* The segment sequences below a namespace root. The routes of the other
\* namespaces read at most two segments ({name}/{file}, {id}/{name}); a
\* hierarchy path is a chain of up to MaxSegs - 1 folder names followed by
\* one more segment.
SegSeqs(ns) ==
  IF ns = "hierarchy"
  THEN UNION { { pre \o <<last>> : pre \in [1..(k - 1) -> NameSegs], last \in SegsOf(ns) } :
               k \in 1..MaxSegs }
  ELSE IF ns = "folders"
  THEN { <<a>> : a \in SegsOf(ns) }
       \cup { <<a, b>> : a \in NameSegs, b \in SegsOf(ns) }
  ELSE UNION { [1..k -> SegsOf(ns)] : k \in 1..2 }

\* The request paths: the root, each namespace root and up to MaxSegs
\* segments below it, each with and without a trailing slash, a segment with
\* a malformed escape, and paths outside every namespace.
Paths ==
  {<<"/">>}
  \cup { <<"/", ns>> : ns \in Namespaces \cup {"nowhere", "health"} }
  \cup { <<"/", ns, "/">> : ns \in Namespaces \cup {"nowhere"} }
  \cup UNION { { <<"/", ns, "/">> \o join(segs) : segs \in SegSeqs(ns) } :
                 ns \in Namespaces }
  \cup UNION { { <<"/", ns, "/">> \o join(segs) \o <<"/">> : segs \in SegSeqs(ns) } :
                 ns \in Namespaces }
  \cup { <<"/", ns, "/", "%">> : ns \in Namespaces }

\* The paths used with the methods whose handling does not look at the path.
ProbePaths ==
  { <<"/">>, <<"/", "folders">>, <<"/", "folders", "/", "A">>,
    <<"/", "hierarchy", "/", "A">>, <<"/", "tags", "/", "sunset">>,
    <<"/", "files", "/", "i1">>, <<"/", "nowhere">> }

(***************************************************************************)
(* State                                                                   *)
(***************************************************************************)
VARIABLES
  library,         \* the Eagle library behind the eagle.* API
  storedPassword,  \* localStorage['eagle-webdav-password'], <<>> when absent
  req,             \* the request being answered, NoReq when the server is idle
  res,             \* the response written for req
  input,           \* a decoded path handed to the path functions
  norm,            \* normalizePath of input encoded 0, 1, 2 times (<<>>: not run)
  trip,            \* input after href generation, one decode, normalizePath
  localStorage,    \* the condition of window.localStorage (StorageModes)
  running,         \* the plugin process is up and the server is constructed
  firstPassword,   \* the first password getServerCredentials returned, ever
  shown,           \* the password getServerInfo gave the UI in this run
  expected,        \* the password the last request was compared against
  granted,         \* the outcome of the last request ("": none yet)
  serverState,     \* localStorage['eagle-webdav-server-state'], "" when absent
  alive,           \* the plugin process is up (onPluginCreate has fired)
  exiting,         \* onPluginBeforeExit has fired in this run
  created,         \* what onPluginCreate did in this run: "started", "skipped"
  userStopped,     \* the last control the user pressed was Stop
  httpServer,      \* EagleWebDAVServer.httpServer: a server object, 0 is null
  isRunning,       \* EagleWebDAVServer.isRunning
  servers,         \* the http.Server objects created in this run, by number
  tasks            \* the stop() and restart() calls that are waiting

reqVars == <<library, storedPassword, req, res>>

pathVars == <<input, norm, trip>>

credVars == <<localStorage, running, firstPassword, shown, expected, granted>>

lifeVars ==
  <<serverState, alive, exiting, created, userStopped, httpServer, isRunning,
    servers, tasks>>

vars == <<reqVars, pathVars, credVars, lifeVars>>

\* the path functions have not been given anything
PathIdle == input = <<>> /\ norm = <<>> /\ trip = <<>>

\* the server has been started by the plugin and no control is used
LifeIdle ==
  /\ serverState = "running"
  /\ alive = TRUE
  /\ exiting = FALSE
  /\ created = "started"
  /\ userStopped = FALSE
  /\ httpServer = 1
  /\ isRunning = TRUE
  /\ servers = <<"listening">>
  /\ tasks = <<>>

\* a working localStorage; the reads of the credentials are not recorded
CredIdle ==
  /\ localStorage = "ok"
  /\ running = TRUE
  /\ firstPassword = <<>>
  /\ shown = <<>>
  /\ expected = <<>>
  /\ granted = ""

NoReq == [depth |-> "", url |-> <<>>, method |-> "", authorization |-> NoAuth]

Request(method, url, auth, depth) ==
  [depth |-> depth, url |-> url, method |-> method, authorization |-> auth]

\* After construction: the EagleWebDAVServer constructor has called
\* getServerCredentials(), so a password is stored.
Init ==
  /\ library \in Libraries
  /\ storedPassword = <<"p">>
  /\ req = NoReq
  /\ res = FreshRes
  /\ PathIdle
  /\ CredIdle
  /\ LifeIdle

\* One fixed library, for the specification that varies the credentials.
InitAuth ==
  /\ library = [n |-> 2, parent |-> <<0, 1>>,
                fname |-> << <<"A">>, <<"B", " ", "C">> >>,
                fail |-> "none", count |-> 2]
  /\ storedPassword = <<"p">>
  /\ req = NoReq
  /\ res = FreshRes
  /\ PathIdle
  /\ CredIdle
  /\ LifeIdle

\* handleRequest runs for request r
Serve(r) ==
  /\ req = NoReq
  \* generateUUID() is called only when no password is stored
  /\ \E uuid \in (IF Generates(localStorage, storedPassword) THEN UUIDs
                   ELSE {<<>>}) :
       /\ res' = handleRequest(library, localStorage, storedPassword, uuid, r)
       /\ storedPassword' = storedAfterRequest(localStorage, storedPassword, uuid, r)
  /\ req' = r
  /\ UNCHANGED <<library, pathVars, credVars, lifeVars>>

PathsFor(auth) == IF auth = ValidAuth THEN Paths ELSE ProbePaths

Options(auths) ==
  \E a \in auths, p \in ProbePaths : Serve(Request("OPTIONS", p, a, ""))

Get(auths) ==
  \E a \in auths : \E p \in PathsFor(a) : Serve(Request("GET", p, a, ""))

HeadRequest(auths) ==
  \E a \in auths : \E p \in PathsFor(a) : Serve(Request("HEAD", p, a, ""))

Propfind(auths) ==
  \E a \in auths : \E p \in PathsFor(a), d \in DepthHeaders :
     Serve(Request("PROPFIND", p, a, d))

Write(auths) ==
  \E a \in auths, p \in ProbePaths, m \in WriteMethods : Serve(Request(m, p, a, ""))

Other(auths) ==
  \E a \in auths, p \in ProbePaths, m \in {"POST", "PATCH"} : Serve(Request(m, p, a, ""))

\* the read stream of the file reaches its end: 'end', 'close'
StreamEnd ==
  /\ req # NoReq
  /\ res.stream = "open"
  /\ res' = [res EXCEPT !.stream = "ended"]
  /\ UNCHANGED <<library, storedPassword, req, pathVars, credVars, lifeVars>>

\* reading the file fails: the 'error' handler of the read stream runs
StreamError ==
  /\ req # NoReq
  /\ res.stream = "open"
  /\ res' = streamError(res)
  /\ UNCHANGED <<library, storedPassword, req, pathVars, credVars, lifeVars>>

\* the response has been sent and the connection is done
Finish ==
  /\ req # NoReq
  /\ res.stream # "open"
  /\ req' = NoReq
  /\ res' = FreshRes
  /\ UNCHANGED <<library, storedPassword, pathVars, credVars, lifeVars>>

Next ==
  \/ Options(MainAuths)
  \/ Get(MainAuths)
  \/ HeadRequest(MainAuths)
  \/ Propfind(MainAuths)
  \/ Write(MainAuths)
  \/ Other(MainAuths)
  \/ StreamEnd
  \/ StreamError
  \/ Finish

Spec == Init /\ [][Next]_vars

NextAuth ==
  \/ Options(AllAuths)
  \/ Get(AllAuths)
  \/ HeadRequest(AllAuths)
  \/ Propfind(AllAuths)
  \/ Write(AllAuths)
  \/ Other(AllAuths)
  \/ StreamEnd
  \/ StreamError
  \/ Finish

SpecAuth == InitAuth /\ [][NextAuth]_vars

\* The item counts eagle.item.countAll() may report: the two items the model
\* names, and a library at and just over the limit of getAllEagleItems (the
\* items beyond the two named ones are not written out in a listing).
ItemCounts == {2, 5000, 5001}

\* One fixed folder tree over a backing store of which one API call, or
\* none, throws, and which holds few or many items.
InitStore ==
  /\ library \in { [n |-> 2, parent |-> <<0, 1>>,
                     fname |-> << <<"A">>, <<"B", " ", "C">> >>,
                     fail |-> f, count |-> c] :
                    f \in ApiCalls \cup {"none"}, c \in ItemCounts }
  /\ storedPassword = <<"p">>
  /\ req = NoReq
  /\ res = FreshRes
  /\ PathIdle
  /\ CredIdle
  /\ LifeIdle

SpecStore == InitStore /\ [][Next]_vars

(***************************************************************************)
(* The path functions on their own                                         *)
(***************************************************************************)
PathAlphabet == {"a", " ", "%", "2", "0", "/"}

\* decoded paths of up to MaxLen characters
PathInputs == UNION { [1..k -> PathAlphabet] : k \in 1..MaxLen }

InitPath ==
  /\ library = [n |-> 1, parent |-> <<0>>, fname |-> << <<"A">> >>,
                fail |-> "none", count |-> 2]
  /\ storedPassword = <<"p">>
  /\ req = NoReq
  /\ res = FreshRes
  /\ input \in PathInputs
  /\ norm = <<>>
  /\ trip = <<>>
  /\ CredIdle
  /\ LifeIdle

\* normalizePath is applied to the path as it is, encoded once and encoded
\* twice
Normalize ==
  /\ norm = <<>>
  /\ norm' = << normalizePath(input), normalizePath(encodeURI(input)),
               normalizePath(encodeURI(encodeURI(input))) >>
  /\ UNCHANGED <<reqVars, input, trip, credVars, lifeVars>>

\* the path goes out as an href (generateHrefPath), comes back in a request
\* URL, is decoded once and normalized
RoundTrip ==
  /\ trip = <<>>
  /\ LET d == decodeURIComponent(generateHrefPath(input))
     IN trip' = << IF d.ok THEN normalizePath(d.val) ELSE <<"URIError">> >>
  /\ UNCHANGED <<reqVars, input, norm, credVars, lifeVars>>

NextPath == Normalize \/ RoundTrip

SpecPath == InitPath /\ [][NextPath]_vars

(***************************************************************************)
(* The credentials over the runs of the plugin process                     *)
(***************************************************************************)
\* A fresh installation: nothing is stored, the process is not up yet.
InitCred ==
  /\ library = [n |-> 1, parent |-> <<0>>, fname |-> << <<"A">> >>,
                fail |-> "none", count |-> 2]
  /\ storedPassword = <<>>
  /\ req = NoReq
  /\ res = FreshRes
  /\ PathIdle
  /\ localStorage \in StorageModes
  /\ running = FALSE
  /\ firstPassword = <<>>
  /\ shown = <<>>
  /\ expected = <<>>
  /\ granted = ""
  /\ LifeIdle

\* getServerCredentials() returns c: the store and the record of the first
\* password after the call
CredentialsRead(c) ==
  /\ storedPassword' = c.stored
  /\ firstPassword' = IF firstPassword = <<>> THEN c.password ELSE firstPassword

\* the values generateUUID() may return in a call of getServerCredentials
UUIDsNow == IF Generates(localStorage, storedPassword) THEN UUIDs ELSE {<<>>}

\* new EagleWebDAVServer(): the constructor reads the credentials
Construct ==
  /\ ~running
  /\ running' = TRUE
  /\ \E uuid \in UUIDsNow :
       CredentialsRead(getServerCredentials(localStorage, storedPassword, uuid))
  /\ UNCHANGED <<library, req, res, pathVars, localStorage, shown, expected, granted,
                 lifeVars>>

\* server.getServerInfo(): the UI is given the credentials to show
GetServerInfo ==
  /\ running
  /\ \E uuid \in UUIDsNow :
       LET c == getServerCredentials(localStorage, storedPassword, uuid)
       IN CredentialsRead(c) /\ shown' = c.password
  /\ UNCHANGED <<library, req, res, pathVars, localStorage, running, expected,
                 granted, lifeVars>>

\* auth.authenticateRequest for a request that carries the host name and
\* the password the UI shows
AuthenticateShown ==
  /\ running
  /\ shown # <<>>
  /\ \E uuid \in UUIDsNow :
       LET c == getServerCredentials(localStorage, storedPassword, uuid)
           h == BasicAuth(Hostname \o <<":">> \o shown)
       IN /\ CredentialsRead(c)
          /\ expected' = c.password
          /\ granted' = IF authenticateRequest(h, localStorage, storedPassword, uuid)
                        THEN "yes" ELSE "no"
  /\ UNCHANGED <<library, req, res, pathVars, localStorage, running, shown, lifeVars>>

\* the process ends; what is in localStorage stays, and the next run finds
\* localStorage in any condition
Quit ==
  /\ running
  /\ running' = FALSE
  /\ shown' = <<>>
  /\ expected' = <<>>
  /\ granted' = ""
  /\ localStorage' \in StorageModes
  /\ UNCHANGED <<reqVars, pathVars, firstPassword, lifeVars>>

NextCred == Construct \/ GetServerInfo \/ AuthenticateShown \/ Quit

SpecCred == InitCred /\ [][NextCred]_vars

(***************************************************************************)
(* Requests served under every condition of localStorage                   *)
(***************************************************************************)
\* the credentials of the requests: none, the host name with a password
\* stored by an earlier run, the host name with a generated password
FrameAuths == {NoAuth, ValidAuth} \cup { BasicAuth(Hostname \o <<":">> \o u) : u \in UUIDs }

\* After construction with localStorage in any condition: the key holds the
\* password of an earlier run, or what the constructor's call of
\* getServerCredentials() left in it on a fresh installation.
InitFrame ==
  /\ library = [n |-> 2, parent |-> <<0, 1>>,
                fname |-> << <<"A">>, <<"B", " ", "C">> >>,
                fail |-> "none", count |-> 2]
  /\ localStorage \in StorageModes
  /\ storedPassword \in
       {<<"p">>} \cup { getServerCredentials(localStorage, <<>>, u).stored : u \in UUIDs }
  /\ req = NoReq
  /\ res = FreshRes
  /\ PathIdle
  /\ running = TRUE
  /\ firstPassword = <<>>
  /\ shown = <<>>
  /\ expected = <<>>
  /\ granted = ""
  /\ LifeIdle

NextFrame ==
  \/ Options(FrameAuths)
  \/ Get(FrameAuths)
  \/ HeadRequest(FrameAuths)
  \/ Propfind(FrameAuths)
  \/ Write(FrameAuths)
  \/ Other(FrameAuths)
  \/ StreamEnd
  \/ StreamError
  \/ Finish

SpecFrame == InitFrame /\ [][NextFrame]_vars

(***************************************************************************)
(* The life of the server: plugin creation, the controls of the UI, the    *)
(* exit of the host application (BackgroundService, EagleWebDAVServer)     *)
(***************************************************************************)
\* A fresh installation before the plugin is created for the first time.
InitLife ==
  /\ library = [n |-> 1, parent |-> <<0>>, fname |-> << <<"A">> >>,
                fail |-> "none", count |-> 2]
  /\ storedPassword = <<"p">>
  /\ req = NoReq
  /\ res = FreshRes
  /\ PathIdle
  /\ CredIdle
  /\ serverState = ""
  /\ alive = FALSE
  /\ exiting = FALSE
  /\ created = ""
  /\ userStopped = FALSE
  /\ httpServer = 0
  /\ isRunning = FALSE
  /\ servers = <<>>
  /\ tasks = <<>>

\* port 41596 is bound by none of the servers of this program
PortFree == \A k \in 1..Len(servers) : servers[k] # "listening"

\* BackgroundService.start over EagleWebDAVServer.start: a new http.Server
\* replaces the one held in httpServer; listen(port) binds the port at once
\* and its callback, or the 'error' handler, runs before any other event
startServer ==
  /\ Len(servers) < MaxServers
  /\ servers' = Append(servers, IF PortFree THEN "listening" ELSE "error")
  /\ httpServer' = Len(servers) + 1
  /\ isRunning' = (PortFree \/ isRunning)
  /\ serverState' = IF PortFree THEN "running" ELSE serverState

\* BackgroundService.stop / restart as far as the call of
\* EagleWebDAVServer.stop: httpServer.close(callback) ends the listening at
\* once and the call waits for the callback; without a running server the
\* call goes on at once (stop writes the state, restart then waits 1000 ms)
stopServer(op, by) ==
  /\ Len(tasks) < MaxTasks
  /\ IF httpServer # 0 /\ isRunning
     THEN /\ servers' = [servers EXCEPT ![httpServer] =
                           IF @ = "listening" THEN "closed" ELSE @]
          /\ tasks' = Append(tasks, [op |-> op, by |-> by, pc |-> "closing"])
          /\ UNCHANGED serverState
     ELSE /\ serverState' = "stopped"
          /\ tasks' = IF op = "restart"
                      THEN Append(tasks, [op |-> op, by |-> by, pc |-> "delay"])
                      ELSE tasks
          /\ UNCHANGED servers

\* the tasks without the i-th
Without(i) == [k \in 1..(Len(tasks) - 1) |-> IF k < i THEN tasks[k] ELSE tasks[k + 1]]

\* eagle.event.onPluginCreate: a new run of the plugin; the server is
\* started unless the stored state is "stopped"
PluginCreate ==
  /\ ~alive
  /\ alive' = TRUE
  /\ IF serverState # "stopped"
     THEN created' = "started" /\ startServer
     ELSE created' = "skipped" /\ UNCHANGED <<serverState, httpServer, isRunning, servers>>
  /\ UNCHANGED <<reqVars, pathVars, credVars, exiting, userStopped, tasks>>

\* App.handleStart: the Start control, disabled while the status shown is
\* "running"
UiStart ==
  /\ alive /\ ~exiting
  /\ ~isRunning
  /\ startServer
  /\ userStopped' = FALSE
  /\ UNCHANGED <<reqVars, pathVars, credVars, alive, exiting, created, tasks>>

\* App.handleStop: the Stop control, enabled while the status shown is
\* "running"
UiStop ==
  /\ alive /\ ~exiting
  /\ isRunning
  /\ stopServer("stop", "ui")
  /\ userStopped' = TRUE
  /\ UNCHANGED <<reqVars, pathVars, credVars, alive, exiting, created, httpServer,
                 isRunning>>

\* App.handleRestart: the Restart control, enabled while the status shown
\* is "running"
UiRestart ==
  /\ alive /\ ~exiting
  /\ isRunning
  /\ stopServer("restart", "ui")
  /\ userStopped' = FALSE
  /\ UNCHANGED <<reqVars, pathVars, credVars, alive, exiting, created, httpServer,
                 isRunning>>

\* eagle.event.onPluginBeforeExit: the host application exits; stop() is
\* called and not awaited
BeforeExit ==
  /\ alive /\ ~exiting
  /\ exiting' = TRUE
  /\ stopServer("stop", "exit")
  /\ UNCHANGED <<reqVars, pathVars, credVars, alive, created, userStopped, httpServer,
                 isRunning>>

\* the callback of httpServer.close runs, and the stop() that waited for it
\* goes on: the state "stopped" is written; a restart then waits 1000 ms
CloseDone ==
  \E i \in 1..Len(tasks) :
     /\ tasks[i].pc = "closing"
     /\ isRunning' = FALSE
     /\ serverState' = "stopped"
     /\ tasks' = IF tasks[i].op = "restart"
                 THEN [tasks EXCEPT ![i].pc = "delay"]
                 ELSE Without(i)
     /\ UNCHANGED <<reqVars, pathVars, credVars, alive, exiting, created, userStopped,
                    httpServer, servers>>

\* the 1000 ms of restart() are over: start() is called
DelayDone ==
  \E i \in 1..Len(tasks) :
     /\ tasks[i].pc = "delay"
     /\ startServer
     /\ tasks' = Without(i)
     /\ UNCHANGED <<reqVars, pathVars, credVars, alive, exiting, created, userStopped>>

\* the process ends, at any moment after before-exit: its servers and the
\* calls that wait are gone, what is in localStorage stays
Exit ==
  /\ exiting
  /\ alive' = FALSE
  /\ exiting' = FALSE
  /\ created' = ""
  /\ httpServer' = 0
  /\ isRunning' = FALSE
  /\ servers' = <<>>
  /\ tasks' = <<>>
  /\ UNCHANGED <<reqVars, pathVars, credVars, serverState, userStopped>>

NextLife ==
  \/ PluginCreate
  \/ UiStart
  \/ UiStop
  \/ UiRestart
  \/ BeforeExit
  \/ CloseDone
  \/ DelayDone
  \/ Exit

SpecLife == InitLife /\ [][NextLife]_vars

(***************************************************************************)
(* What the checked properties refer to: the answered request, and the     *)
(* collections and resources of the library as the URL namespace presents  *)
(* them, read off the library and not off the handlers.                    *)
(***************************************************************************)
\* a response has been written for a request that carried the credentials
Authenticated(method) ==
  req # NoReq /\ req.method = method /\ req.authorization = ValidAuth

\* the request path without its trailing slash
Canon(url) == IF Len(url) > 1 THEN stripTrailingSlash(url) ELSE url

RECURSIVE EncChain(_)
EncChain(names) ==
  IF names = <<>> THEN <<>>
  ELSE <<"/">> \o encodeURIComponent(Head(names)) \o EncChain(Tail(names))

\* the folder names from a root folder down to folder i (0: above the roots)
RECURSIVE PathNames(_, _)
PathNames(lib, i) ==
  IF i = 0 THEN <<>> ELSE PathNames(lib, lib.parent[i]) \o <<lib.fname[i]>>

\* the folder indices from a root folder down to folder i
RECURSIVE AncChain(_, _)
AncChain(lib, i) ==
  IF i = 0 THEN <<>> ELSE AncChain(lib, lib.parent[i]) \o <<i>>

HierarchyUrl(lib, i) == <<"/", "hierarchy">> \o EncChain(PathNames(lib, i))

FolderUrl(name) == <<"/", "folders", "/">> \o encodeURIComponent(name)

TagUrl(tag) == <<"/", "tags", "/">> \o encodeURIComponent(tag)

FolderNames(lib) == { lib.fname[i] : i \in 1..lib.n }

TagNames == { TagList[k].name : k \in 1..Len(TagList) }

ItemSet(lib) == { Items(lib)[k] : k \in 1..Len(Items(lib)) }

NamespaceRoots == { <<"/", ns>> : ns \in {"allItems", "folders", "hierarchy", "tags"} }

\* no folder on the way down to folder i has an earlier sibling of its own
\* name, so the names on the way identify folder i
Unshadowed(lib, i) ==
  \A j \in { AncChain(lib, i)[k] : k \in 1..Len(AncChain(lib, i)) } :
     ~\E s \in 1..(j - 1) :
         lib.parent[s] = lib.parent[j] /\ lib.fname[s] = lib.fname[j]

\* /folders/{name}, /hierarchy/{path}, /tags/{tag}
NamedCollections(lib) ==
  { FolderUrl(n) : n \in FolderNames(lib) }
  \cup { HierarchyUrl(lib, i) : i \in { j \in 1..lib.n : Unshadowed(lib, j) } }
  \cup { TagUrl(t) : t \in TagNames }

\* the path names a collection (with or without a trailing slash)
IsCollection(lib, url) ==
  Canon(url) \in {<<"/">>} \cup NamespaceRoots \cup NamedCollections(lib)

\* /files/{id} and /files/{id}/{displayName} of an existing item
IsFileById(lib, url) ==
  /\ startsWith(url, <<"/", "files", "/">>)
  /\ Len(url) >= 4
  /\ \E it \in ItemSet(lib) : url[4] = it.id
  /\ (Len(url) = 4 \/ url[5] = "/")

\* the path names a resource: a file by id, or a file of /allItems by name
IsResource(lib, url) ==
  \/ IsFileById(lib, url)
  \/ \E it \in ItemSet(lib) :
        url = <<"/", "allItems", "/">> \o encodeURIComponent(nameWithExt(it))

\* paths that name nothing: an unknown namespace, file id, tag, file name or
\* folder name, and a hierarchy path some segment of which matches no folder
IsUnresolved(lib, url) ==
  \/ Canon(url) \in { <<"/", "nowhere">>, <<"/", "files", "/", "noid">>,
                      <<"/", "tags", "/", "notag">>,
                      <<"/", "allItems", "/", "nofile">> }
  \/ \E n \in NameSet \ FolderNames(lib) : Canon(url) = FolderUrl(n)
  \/ \E c \in UNION { [1..k -> NameSet] : k \in 1..2 } :
        /\ Canon(url) = <<"/", "hierarchy">> \o EncChain(c)
        /\ \A i \in 1..lib.n : PathNames(lib, i) # c

\* the elements of the multistatus other than the one for the request path
Children(elems) == SelectSeq(elems, LAMBDA e : ~e.self)

HasSelf(elems) == \E k \in 1..Len(elems) : elems[k].self

\* the collections (canonical paths) whose immediate child the entity is
ParentUrls(lib, id) ==
  IF id \in {"allItems", "folders", "hierarchy", "tags"} THEN {<<"/">>}
  ELSE IF \E k \in 1..Len(TagList) : TagList[k].id = id THEN {<<"/", "tags">>}
  ELSE IF FolderIndex(lib, id) # 0
  THEN {<<"/", "folders">>, HierarchyUrl(lib, lib.parent[FolderIndex(lib, id)])}
  ELSE UNION { {<<"/", "allItems">>}
               \cup { FolderUrl(lib.fname[FolderIndex(lib, f)]) : f \in it.folders }
               \cup { HierarchyUrl(lib, FolderIndex(lib, f)) : f \in it.folders }
               \cup { TagUrl(t) : t \in it.tags }
               : it \in { x \in ItemSet(lib) : x.id = id } }

\* folder a comes before folder b in the pre-order depth-first traversal:
\* a is an ancestor of b, or where their ancestor chains part a's branch is
\* the earlier sibling
Before(lib, a, b) ==
  LET ca == AncChain(lib, a)
      cb == AncChain(lib, b)
  IN \/ Len(ca) < Len(cb) /\ SubSeq(cb, 1, Len(ca)) = ca
     \/ \E k \in 1..Len(ca) :
           /\ k <= Len(cb)
           /\ SubSeq(ca, 1, k - 1) = SubSeq(cb, 1, k - 1)
           /\ ca[k] < cb[k]

\* the first folder of that name in pre-order (0: none)
FirstNamed(lib, name) ==
  LET named == { i \in 1..lib.n : lib.fname[i] = name }
  IN IF named = {} THEN 0
     ELSE CHOOSE i \in named : \A j \in named \ {i} : Before(lib, i, j)

ElemIds(elems) == { elems[k].id : k \in 1..Len(elems) }

(***************************************************************************)
(* C1                                                                      *)
(***************************************************************************)
\* the header is Basic, decodes, and its text is exactly username:password
CredentialsExact(h) ==
  h.scheme = "Basic" /\ h.b64ok /\ h.text = Hostname \o <<":">> \o storedPassword

\* C1: a request whose method is not OPTIONS and whose Authorization header
\* is absent, not Basic, undecodable or not exactly the stored
\* username:password is answered 401 with WWW-Authenticate, and no provider,
\* backing-store call or file streamer ran for it.
C1_RejectedWithoutExactCredentials ==
  (req # NoReq /\ req.method # "OPTIONS" /\ ~CredentialsExact(req.authorization))
  => /\ res.status = 401
     /\ res.wwwAuthenticate
     /\ res.provider = "none"
     /\ res.calls = {}
     /\ res.served = ""

(***************************************************************************)
(* C2                                                                      *)
(***************************************************************************)
\* C2: an authenticated PUT, DELETE, MKCOL, COPY, MOVE, LOCK, UNLOCK or
\* PROPPATCH, on any path, is answered 403 with a WebDAV-XML error body and
\* reaches no provider and no file streamer.
C2_WritesForbidden ==
  (/\ req # NoReq
   /\ req.authorization = ValidAuth
   /\ req.method \in {"PUT", "DELETE", "MKCOL", "COPY", "MOVE", "LOCK", "UNLOCK",
                      "PROPPATCH"})
  => /\ res.status = 403
     /\ res.contentType = "application/xml"
     /\ res.body = "xmlerror"
     /\ res.bodyStatus = 403
     /\ res.provider = "none"
     /\ res.calls = {}
     /\ res.served = ""

\* an authenticated DELETE of a path that does not exist has been refused
C2_Witness ==
  /\ Authenticated("DELETE")
  /\ req.url = <<"/", "nowhere">>
  /\ res.status = 403
  /\ res.body = "xmlerror"

(***************************************************************************)
(* C3                                                                      *)
(***************************************************************************)
\* C3: an authenticated GET on a path that names a collection (the root, a
\* namespace root, a named folder with or without trailing slash, a nested
\* hierarchy folder, a tag) is answered 405 with an Allow header that
\* contains PROPFIND.
C3_GetCollection405Allow ==
  (Authenticated("GET") /\ IsCollection(library, req.url))
  => (res.status = 405 /\ "PROPFIND" \in res.allow)

(***************************************************************************)
(* C4                                                                      *)
(***************************************************************************)
\* C4: an authenticated HEAD is answered 200 only when the path names a
\* resource, 405 when it names a collection and 404 when it names nothing.
C4_HeadStatus ==
  Authenticated("HEAD")
  => /\ IsCollection(library, req.url) => res.status = 405
     /\ IsUnresolved(library, req.url) => res.status = 404
     /\ res.status = 200
        => ~IsCollection(library, req.url) /\ ~IsUnresolved(library, req.url)

(***************************************************************************)
(* C5                                                                      *)
(***************************************************************************)
\* C5: an authenticated PROPFIND is answered 207 when the path names a
\* collection or a resource and 404 when it names nothing (a hierarchy path
\* with a segment matching no folder, an unknown folder name, tag name or
\* file id); no exception leaves the handler.
C5_Propfind207Or404 ==
  Authenticated("PROPFIND")
  => /\ (IsCollection(library, req.url) \/ IsResource(library, req.url))
        => res.status = 207
     /\ IsUnresolved(library, req.url) => res.status = 404
     /\ ~res.threw

(***************************************************************************)
(* C6                                                                      *)
(***************************************************************************)
\* C6: an authenticated PROPFIND with Depth: 0 on the root, a namespace
\* root, a named folder, a hierarchy folder, a tag or a file by id is
\* answered with a multistatus of exactly one response element; and no
\* Depth: 0 multistatus has more or fewer than one.
C6_DepthZeroOneElement ==
  (Authenticated("PROPFIND") /\ req.depth = "0")
  => /\ (IsCollection(library, req.url) \/ IsFileById(library, req.url))
        => res.status = 207
     /\ res.status = 207 => Len(res.elems) = 1

\* Depth: 0 on /folders/A, a folder that holds a file, gave one element
C6_Witness ==
  /\ Authenticated("PROPFIND")
  /\ req.depth = "0"
  /\ req.url = <<"/", "folders", "/", "A">>
  /\ itemsInFolder(library, FolderIdTok[FirstNamed(library, <<"A">>)]) # <<>>
  /\ res.status = 207
  /\ Len(res.elems) = 1

(***************************************************************************)
(* C7                                                                      *)
(***************************************************************************)
\* C7: for a Depth header other than '0' ('1', 'infinity', absent), every
\* response element of a PROPFIND multistatus other than the one for the
\* requested path describes an immediate child of the requested collection,
\* never a grandchild or deeper descendant.
C7_ImmediateChildrenOnly ==
  (Authenticated("PROPFIND") /\ req.depth # "0" /\ res.status = 207)
  => \A k \in 1..Len(res.elems) :
        ~res.elems[k].self
        => Canon(req.url) \in ParentUrls(library, res.elems[k].id)

\* /hierarchy was listed with Depth: infinity over a tree three levels
\* deep, and the listing has the root folder only
C7_Witness ==
  /\ Authenticated("PROPFIND")
  /\ req.depth = "infinity"
  /\ req.url = <<"/", "hierarchy">>
  /\ library.n = 3
  /\ library.parent = <<0, 1, 2>>
  /\ res.status = 207
  /\ ElemIds(Children(res.elems)) = {"f1"}

(***************************************************************************)
(* C8                                                                      *)
(***************************************************************************)
\* C8: in a depth-1 PROPFIND multistatus the element for the requested
\* collection itself is present for a namespace root and absent for a named
\* subfolder (/folders/{name}, /hierarchy/{path}, /tags/{tag}).
C8_SelfOnlyForNamespaceRoots ==
  (Authenticated("PROPFIND") /\ req.depth = "1" /\ res.status = 207)
  => /\ Canon(req.url) \in NamespaceRoots => HasSelf(res.elems)
     /\ Canon(req.url) \in NamedCollections(library) => ~HasSelf(res.elems)

(***************************************************************************)
(* C9                                                                      *)
(***************************************************************************)
\* C9: whatever the folder tree, the depth-1 PROPFIND listing of /folders
\* has no two child elements with the same href.
C9_FoldersListingDistinctHrefs ==
  (/\ Authenticated("PROPFIND")
   /\ req.depth = "1"
   /\ Canon(req.url) = <<"/", "folders">>
   /\ res.status = 207)
  => LET c == Children(res.elems)
     IN \A j, k \in 1..Len(c) : j # k => c[j].href # c[k].href

(***************************************************************************)
(* C10                                                                     *)
(***************************************************************************)
\* C10: a PROPFIND of /folders/{name} lists the files of the first folder
\* of that name in pre-order depth-first traversal (a folder before its
\* children, children before the next sibling) and of no other folder of
\* that name, on every request; it is 404 when no folder has the name.
C10_FirstPreOrderFolder ==
  (Authenticated("PROPFIND") /\ req.depth # "0")
  => \A name \in NameSet :
        Canon(req.url) = FolderUrl(name)
        => LET first == FirstNamed(library, name)
           IN IF first = 0 THEN res.status = 404
              ELSE /\ res.status = 207
                   /\ ElemIds(Children(res.elems))
                        = { it.id : it \in { x \in ItemSet(library) :
                                               FolderIdTok[first] \in x.folders } }

\* two folders are named "B C"; the one nested under the first root folder
\* comes first in pre-order although the other root folder was created
\* earlier; the listing has the nested folder's file
C10_Witness ==
  /\ Authenticated("PROPFIND")
  /\ req.depth = "1"
  /\ req.url = FolderUrl(<<"B", " ", "C">>)
  /\ library.n = 3
  /\ library.parent = <<0, 0, 1>>
  /\ library.fname[2] = <<"B", " ", "C">>
  /\ library.fname[3] = <<"B", " ", "C">>
  /\ res.status = 207
  /\ ElemIds(Children(res.elems)) = {"i2"}

(***************************************************************************)
(* C11                                                                     *)
(***************************************************************************)
\* the ids of the folders directly under folder i (0: the root folders)
ChildFolderIds(lib, i) == { FolderIdTok[j] : j \in { k \in 1..lib.n : lib.parent[k] = i } }

\* the ids of the items that lie in folder i itself
ItemIdsIn(lib, i) ==
  { it.id : it \in { x \in ItemSet(lib) : FolderIdTok[i] \in x.folders } }

\* C11: a depth-1 PROPFIND of /hierarchy lists exactly the top-level
\* folders, and a depth-1 PROPFIND of /hierarchy/{p} lists the immediate
\* child folders of the folder the walk over p reaches together with that
\* folder's own items.
C11_HierarchyListsChildren ==
  (Authenticated("PROPFIND") /\ req.depth = "1")
  => /\ Canon(req.url) = <<"/", "hierarchy">>
        => /\ res.status = 207
           /\ ElemIds(Children(res.elems)) = ChildFolderIds(library, 0)
     /\ \A i \in { j \in 1..library.n : Unshadowed(library, j) } :
           Canon(req.url) = HierarchyUrl(library, i)
           => /\ res.status = 207
              /\ ElemIds(Children(res.elems))
                   = ChildFolderIds(library, i) \cup ItemIdsIn(library, i)

(***************************************************************************)
(* C12                                                                     *)
(***************************************************************************)
\* h is a decoded path (one that holds no '%') percent-encoded exactly
\* once: it decodes, the decoded path holds no further escape, and encoding
\* the decoded path gives h back
EncodedOnce(h) ==
  LET d == decodeURIComponent(h)
  IN /\ d.ok
     /\ \A i \in 1..Len(d.val) : d.val[i] # "%"
     /\ encodeURI(d.val) = h

\* C12: every href of a multistatus is the canonical path percent-encoded
\* exactly once: no raw space, no double encoding, no segments encoded to
\* different levels.
C12_HrefsEncodedOnce ==
  (Authenticated("PROPFIND") /\ res.status = 207)
  => \A k \in 1..Len(res.elems) : EncodedOnce(res.elems[k].href)

(***************************************************************************)
(* C13                                                                     *)
(***************************************************************************)
\* C13: for every decoded path, normalizePath gives the same result for
\* the path percent-encoded zero times, once and twice.
C13_NormalizeSameForAllEncodings ==
  norm # <<>> => (norm[1] = norm[2] /\ norm[2] = norm[3])

(***************************************************************************)
(* C14                                                                     *)
(***************************************************************************)
\* a path as the routes hold it: no slash and no blank at either end
Trimmed(p) == p # <<>> /\ p[1] \notin {"/", " "} /\ p[Len(p)] \notin {"/", " "}

\* C14: for every decoded path, names with a literal '%' included,
\* generating its href, decoding that once and normalizing it gives the
\* path back.
C14_HrefRoundTrip ==
  (trip # <<>> /\ Trimmed(input)) => trip[1] = input

(***************************************************************************)
(* Claims about a failing backing store (SpecStore)                        *)
(***************************************************************************)
\* the library with a backing store that answers every call
Healthy(lib) == [lib EXCEPT !.fail = "none"]

\* the failure of the backing store changed the answer to the request: the
\* failing call was made while the request was served
FailureShows ==
  /\ req # NoReq
  /\ req.method \in {"GET", "PROPFIND"}
  /\ req.authorization = ValidAuth
  /\ library.fail # "none"
  /\ res.stream \in {"", "open"}
  /\ res # handleRequest(Healthy(library), localStorage, storedPassword, <<>>, req)

\* C15: when a backing-store call fails while a GET or a PROPFIND is served,
\* the response status is 500; the failure never shows as a 207 with an empty
\* listing or as a 404.
C15_StoreFailureIs500 == FailureShows => res.status = 500

(***************************************************************************)
(* C16                                                                     *)
(***************************************************************************)
\* a PROPFIND of the /allItems collection was answered
AllItemsListed ==
  Authenticated("PROPFIND") /\ Canon(req.url) = <<"/", "allItems">>

\* C16: a PROPFIND on /allItems asks for the item count before anything
\* else; when the count is greater than 5000 the answer is 207 with the self
\* element and no child, and the item list is never fetched; when the count
\* is 5000 or less, the store answers and a listing is asked for (Depth
\* other than '0'), every item of the store is a child of the answer.
C16_AllItemsCountFirst ==
  AllItemsListed
  => /\ res.api # <<>>
     /\ res.api[1] = "item.countAll"
     /\ library.count > 5000
        => /\ res.status = 207
           /\ Len(res.elems) = 1
           /\ res.elems[1].self
           /\ \A k \in 1..Len(res.api) : res.api[k] # "item.getAll"
     /\ (library.count <= 5000 /\ library.fail = "none" /\ req.depth # "0")
        => /\ res.status = 207
           /\ HasSelf(res.elems)
           /\ \A it \in ItemSet(library) : it.id \in ElemIds(Children(res.elems))
           /\ res.api = <<"item.countAll", "item.getAll">>

\* /allItems of a library of 5001 items was listed with Depth: 1: one
\* element, and only the count was asked for
C16_Witness ==
  /\ AllItemsListed
  /\ req.depth = "1"
  /\ library.count = 5001
  /\ library.fail = "none"
  /\ Len(res.elems) = 1
  /\ res.api = <<"item.countAll">>

(***************************************************************************)
(* C17                                                                     *)
(***************************************************************************)
\* the segments of the request path after /files/
FilesSegments == split(stripTrailingSlash(substring(req.url, 3)), "/")

\* an authenticated GET, HEAD or PROPFIND of /files/{id}/{s} was answered
FilesWithName ==
  /\ req # NoReq
  /\ req.method \in {"GET", "HEAD", "PROPFIND"}
  /\ req.authorization = ValidAuth
  /\ startsWith(req.url, <<"/", "files", "/">>)
  /\ Len(FilesSegments) >= 2
  /\ FilesSegments[1] # <<>>

\* the answer to the same request on /files/{id}
AnswerById ==
  handleRequest(library, localStorage, storedPassword, <<>>,
                [req EXCEPT !.url = <<"/", "files", "/">> \o FilesSegments[1]])

\* C17: GET, HEAD and PROPFIND on /files/{id}/{s} give the same item and
\* the same status as on /files/{id}, whatever the trailing segment s is; an
\* id that matches no item gives 404.
C17_FilesNameSegmentIgnored ==
  FilesWithName
  => /\ res.status = AnswerById.status
     /\ res.served = AnswerById.served
     /\ ElemIds(res.elems) = ElemIds(AnswerById.elems)
     /\ res.contentType = AnswerById.contentType
     /\ res.contentLength = AnswerById.contentLength
     /\ (\A it \in ItemSet(library) : <<it.id>> # FilesSegments[1])
        => res.status = 404

\* GET /files/i1/photo.jpg was answered with the content of item i1
C17_Witness ==
  /\ FilesWithName
  /\ req.method = "GET"
  /\ FilesSegments = << <<"i1">>, <<"photo", ".", "jpg">> >>
  /\ res.status = 200
  /\ res.served = "i1"

(***************************************************************************)
(* C18 (SpecCred)                                                          *)
(***************************************************************************)
\* C18: the password is generated at most once: every read of the
\* credentials returns the password of the first read, in the same and in
\* every later run, so the password the UI shows and the password a request
\* is compared against are equal, whatever the condition of localStorage.
C18_PasswordGeneratedOnce ==
  /\ shown # <<>> => shown = firstPassword
  /\ expected # <<>> => expected = firstPassword
  /\ (shown # <<>> /\ expected # <<>>) => shown = expected
  /\ granted # "no"

(***************************************************************************)
(* C19, C20 (SpecLife)                                                     *)
(***************************************************************************)
\* C19: on every plugin creation the server is started automatically unless
\* the user stopped it with the Stop control: when the plugin creation did
\* not start the server, the last control the user pressed was Stop. A run
\* that ended with the exit of the host application does not count as one.
C19_AutoStartUnlessUserStopped == created = "skipped" => userStopped

\* the server objects of this program that are listening on port 41596
Listening == { k \in 1..Len(servers) : servers[k] = "listening" }

\* C20: whatever start(), stop() and restart() calls were made and however
\* they interleaved, at most one server of this program listens on the port,
\* and a server that listens is the one the singleton holds in httpServer.
C20_OneListeningServerHeld ==
  /\ Cardinality(Listening) <= 1
  /\ \A k \in Listening : k = httpServer

(***************************************************************************)
(* C21 (SpecFrame)                                                         *)
(***************************************************************************)
\* C21: handling a request, of any method and with or without valid
\* credentials, leaves the stored password, the stored server state, the
\* server held by the singleton and its running flag, and the library
\* unchanged.
C21_RequestsWriteNothing ==
  [][(req = NoReq /\ req' # NoReq)
     => UNCHANGED <<storedPassword, serverState, httpServer, isRunning, servers,
                    library, localStorage>>]_vars

\* a request with credentials was answered while nothing was stored and
\* localStorage could not be written: the password it was compared against
\* was generated for it
C21_Witness ==
  /\ req # NoReq
  /\ req.method = "GET"
  /\ parseBasicAuth(req.authorization) # <<>>
  /\ localStorage = "readonly"
  /\ storedPassword = <<>>
  /\ res.status = 401

(***************************************************************************)
(* C22                                                                     *)
(***************************************************************************)
\* C22: an OPTIONS request on any path, with or without credentials, is
\* answered 200 without an authentication challenge, and the response has
\* an Allow header that lists the supported methods.
C22_OptionsAllow ==
  (req # NoReq /\ req.method = "OPTIONS")
  => /\ res.status = 200
     /\ ~res.wwwAuthenticate
     /\ {"OPTIONS", "GET", "HEAD", "PROPFIND"} \subseteq res.allow

(***************************************************************************)
(* C23                                                                     *)
(***************************************************************************)
\* C23: every response with an error status (401, 403, 404, 405, 500) has a
\* WebDAV-XML error body, and the status named in that body is the HTTP
\* status of the response.
C23_ErrorBodiesAreWebDAVXML ==
  (req # NoReq /\ res.status \in {401, 403, 404, 405, 500})
  => /\ res.body = "xmlerror"
     /\ res.contentType = "application/xml"
     /\ res.bodyStatus = res.status

(***************************************************************************)
(* C24                                                                     *)
(***************************************************************************)
\* C24: a successful GET of a resource whose backing file exists is
\* answered 200 with Content-Length the byte size of the item, Content-Type
\* the MIME type of its extension and a Content-Disposition file name that
\* is the name of the item with its extension (photo + jpg: photo.jpg); an
\* item whose backing file is gone is answered 404.
C24_GetHeaders ==
  (Authenticated("GET") /\ "serveFileContent" \in res.calls)
  => \A it \in ItemSet(library) :
        /\ (res.served = it.id
            => /\ res.status = 200
               /\ it.fileExists
               /\ res.contentLength = it.size
               /\ res.contentType = getMimeType(it.ext)
               /\ res.disposition
                    = encodeURIComponent(it.name \o <<".">> \o it.ext))
        /\ (Canon(req.url) = <<"/", "files", "/", it.id>> /\ ~it.fileExists
            => res.status = 404)

(***************************************************************************)
(* C25                                                                     *)
(***************************************************************************)
\* C25: when reading the backing file fails after the 200 status line and
\* the headers were written, the connection is destroyed and nothing more is
\* written to the response: no status line, no header, no error body.
C25_StreamErrorDestroys ==
  [][(req # NoReq /\ res.stream = "open" /\ res.status = 200 /\ req' = req)
     => /\ res'.stream \in {"open", "ended", "destroyed"}
        /\ res' = [res EXCEPT !.stream = res'.stream]]_vars

\* the read of the file of item i1 failed after the 200 was written, and
\* the response was destroyed as it stood
C25_Witness ==
  /\ Authenticated("GET")
  /\ res.stream = "destroyed"
  /\ res.status = 200
  /\ res.served = "i1"
  /\ res.body = "file"

(***************************************************************************)
(* C26                                                                     *)
(***************************************************************************)
\* C26: a PROPFIND with Depth: 1 on the root '/' lists each of the four
\* namespace roots allItems, folders, hierarchy and tags as a collection
\* whose href is its own path (/allItems, /folders, /hierarchy, /tags), and
\* a PROPFIND on every href it lists is answered 207.
C26_RootListsNamespaceRoots ==
  (Authenticated("PROPFIND") /\ req.url = <<"/">> /\ req.depth = "1")
  => /\ res.status = 207
     /\ \A ns \in {"allItems", "folders", "hierarchy", "tags"} :
           \E k \in 1..Len(res.elems) :
              /\ res.elems[k].collection
              /\ ~res.elems[k].self
              /\ res.elems[k].id = ns
              /\ res.elems[k].href = <<"/", ns>>
     /\ \A k \in 1..Len(res.elems) :
           handleRequest(library, localStorage, storedPassword, <<>>,
                         [req EXCEPT !.url = res.elems[k].href]).status = 207

(***************************************************************************)
(* C27                                                                     *)
(***************************************************************************)
\* the display name of an item: its name, followed by '.' and its extension
\* unless the name ends with that already, whatever the case of the letters
ExpectedDisplayName(it) ==
  IF it.ext # <<>>
     /\ (Len(it.name) < 2
         \/ toLowerCase(SubSeq(it.name, Len(it.name) - 1, Len(it.name)))
              # <<".">> \o toLowerCase(it.ext))
  THEN it.name \o <<".">> \o it.ext
  ELSE it.name

\* C27: in every multistatus, under every namespace, the display name of a
\* file is its name followed by '.' and its extension only when the name
\* does not end with '.extension' already, compared without regard to case;
\* a name that ends with the extension is shown unchanged.
C27_DisplayNames ==
  (Authenticated("PROPFIND") /\ res.status = 207)
  => \A k \in 1..Len(res.elems) : \A it \in ItemSet(library) :
        (~res.elems[k].collection /\ res.elems[k].id = it.id)
        => res.elems[k].name = escapeXML(ExpectedDisplayName(it))

(***************************************************************************)
(* C28: one response per request                                           *)
(***************************************************************************)
\* a route handler ran for the request in flight
Routed == res.provider # "none" \/ res.calls # {}

\* the response was closed by res.end(): directly, or by the pipe when the
\* read stream ended
Ended == res.heads >= 1 /\ res.stream \in {"", "ended"}

C28_WitnessDestroyed ==
  /\ Authenticated("GET")
  /\ res.stream = "destroyed"
  /\ res.heads = 1
  /\ ~Ended

(***************************************************************************)
(* C29 (SpecLife)                                                          *)
(***************************************************************************)
\* the server the singleton holds in httpServer listens on the port
HeldListens == httpServer # 0 /\ servers[httpServer] = "listening"

\* C29: once every start() and stop() that was called has completed, the
\* running flag getStatus() reports is true exactly when the server held by
\* the singleton listens, and while the flag is false no server of the
\* program holds the port.
C29_RunningIffListening ==
  tasks = <<>> =>
    /\ isRunning <=> HeldListens
    /\ ~isRunning => PortFree

(***************************************************************************)
(* C30                                                                     *)
(***************************************************************************)
\* the response to a request for href, sent with the credentials of the
\* request in flight
RequestedBack(method, href) ==
  handleRequest(library, localStorage, storedPassword, <<>>,
                [req EXCEPT !.method = method, !.url = href, !.depth = "0"])

\* the file of the item is on disk
FileOnDisk(id) ==
  \E k \in 1..Len(Items(library)) :
     Items(library)[k].id = id /\ Items(library)[k].fileExists

\* the response in flight is a listing, deeper than depth 0, of a path under
\* one of the four namespaces
ListingIn(ns) ==
  /\ Authenticated("PROPFIND")
  /\ req.depth # "0"
  /\ res.status = 207
  /\ isRoute(pathnameOf(req.url), ns)

\* the elements of the listing that are file children
FileChildren ==
  { k \in 1..Len(res.elems) : ~res.elems[k].collection /\ ~res.elems[k].self }

\* C30: every href a listing under /folders, /hierarchy, /tags or /allItems
\* emits for a file child resolves when requested back: PROPFIND on it is
\* answered 207 with one element that is not a collection, and GET on it
\* serves that item (404 only when its file is not on disk).
C30_FileHrefsResolve ==
  \A ns \in {"folders", "hierarchy", "tags", "allItems"} :
     ListingIn(ns) =>
       \A k \in FileChildren :
          LET e == res.elems[k]
              p == RequestedBack("PROPFIND", e.href)
              g == RequestedBack("GET", e.href)
          IN /\ p.status = 207
             /\ Len(p.elems) = 1
             /\ ~p.elems[1].collection
             /\ IF FileOnDisk(e.id)
                THEN g.status = 200 /\ g.served = e.id
                ELSE g.status = 404

====
